---- MODULE Spec2Model ----
(***************************************************************************)
(* BitBreaker transactional core: wallet ledger, attempt state machine,    *)
(* Lightning payment pipeline (webhook + polling) and tournament close.    *)
(*                                                                         *)
(* The persistent store is modelled as the PostgreSQL path of the database *)
(* service: every SQL statement is one atomic step, and a handler may be   *)
(* interleaved with other handlers at every await.  The ephemeral cache is *)
(* modelled as the Redis path: every cache command is one atomic step.     *)
(***************************************************************************)
EXTENDS Integers, FiniteSets, Sequences, Bags, TLC

\* ---------------------------------------------------------------- bounds
NumProcs == 2          \* request handlers that may run (concurrently)
MaxPool  == 12         \* largest prize pool drawn for the close scenarios

\* ------------------------------------------------------ program constants
MAX_ATTEMPTS_PER_TOURNAMENT == 3
HOUSE_FEE_PCT == 2                     \* HOUSE_FEE_PERCENTAGE = 0.02
PRIZE_DISTRIBUTION == <<50, 30, 20>>   \* percentages 0.50, 0.30, 0.20

\* ------------------------------------------------------------ input sets
Users   == {"u1", "u2", "u3", "u4"}
Callers == {"u1", "u2"}                \* users that send requests
Hashes  == {"h1", "h2"}                \* payment hashes minted by Lightning
Procs   == 1..NumProcs
AttemptIds == Procs \cup {101, 102}   \* attempt handles: minted per start-attempt
SubmitScores == {1, 2}                \* sanitized scores sent to /game/submit
CostSats  == 2   \* getBuyInSats().sats: attempt cost at the current rate
BuyInSats == 3   \* tournament.buy_in_sats of the current tournament
DepositAmount == 4  \* amountSats of the deposit invoices

VARIABLES
  wallets,          \* user_wallets.balance_sats per user (0: no row yet)
  transactions,     \* bag of transactions rows
  tournament,       \* the current tournament row
  entries,          \* tournament_entries of the current tournament, by user
  entryRows,        \* tournament_entries rows of the tournament, per user
  sessions,         \* set of game_sessions rows
  payouts,          \* set of payouts rows
  cacheDeposit,     \* cache keys deposit:<hash>
  cacheInvoice,     \* cache keys invoice:<hash>
  cacheWebhook,     \* cache keys webhook:<hash>
  cacheAttempt,     \* cache keys attempt:<id>
  cacheDepositUser, \* cache keys deposit:user:<userId>
  cacheInvoiceUser, \* cache keys invoice:user:<userId>:<tournamentId>
  lnPaid,           \* payment hashes the Lightning backend reports as paid
  lnPayments,       \* payToAddress calls made: payout id, caller, outcome
  memoryStore,      \* cacheStore: the in-memory Map, key -> {value, expiresAt}
  redis,            \* cacheStore: the keys of the Redis server, key -> expiry
  useMemoryStore,   \* cacheStore: TRUE when the in-memory fallback is in use
  now,              \* Date.now(), in seconds
  lnurlChallenges,  \* lnurl_challenges rows, by k1
  authSessions,     \* sessions minted by sessionStore.createSession
  server,           \* the process: configuration, start(), timers, shutdown
  today,            \* the UTC date findCurrent looks up, as a day number
  isProcessing,     \* TournamentEngine.isProcessing
  tomorrowCreated,  \* a tournaments row for the next UTC date exists
  req               \* per handler: its local variables and position

vars == <<wallets, transactions, tournament, entries, entryRows, sessions,
          payouts, cacheDeposit,
          cacheInvoice, cacheWebhook, cacheAttempt, cacheDepositUser,
          cacheInvoiceUser, lnPaid, lnPayments, memoryStore, redis,
          useMemoryStore, now, lnurlChallenges, authSessions, server,
          today, isProcessing, tomorrowCreated, req>>

storeVars ==
  <<memoryStore, redis, useMemoryStore, now, lnurlChallenges, authSessions,
    server, today>>

\* the process once start() has called app.listen, in development
ServerListening ==
  [production |-> FALSE, webhookSecret |-> TRUE, redisUrl |-> FALSE,
   apiKey |-> TRUE, pc |-> "listening", sd |-> "none", exited |-> FALSE,
   cron |-> TRUE, listening |-> TRUE, cacheCleanup |-> TRUE,
   sessionCleanup |-> TRUE, tickRan |-> FALSE, sweepRan |-> FALSE,
   requestAccepted |-> FALSE, lateWork |-> FALSE]

\* the cache store before its first call: initCacheStore chose the in-memory
\* fallback and the Map is empty; no LNURL challenge has been created
StoreIdle ==
  /\ memoryStore = << >>
  /\ redis = << >>
  /\ useMemoryStore = TRUE
  /\ now = 0
  /\ lnurlChallenges = << >>
  /\ authSessions = {}
  /\ server = ServerListening
  /\ today = 0

\* ------------------------------------------------------------- helpers
RECURSIVE SumRows(_, _)
SumRows(bag, rows) ==
  IF rows = {} THEN 0
  ELSE LET r == CHOOSE x \in rows : TRUE
       IN  r.amount_sats * CopiesIn(r, bag) + SumRows(bag, rows \ {r})

\* sum(amount_sats) over the transactions rows of user u
LedgerSum(u) ==
  SumRows(transactions, {r \in BagToSet(transactions) : r.user_id = u})

RECURSIVE CountRows(_, _)
CountRows(bag, rows) ==
  IF rows = {} THEN 0
  ELSE LET r == CHOOSE x \in rows : TRUE
       IN  CopiesIn(r, bag) + CountRows(bag, rows \ {r})

TxRow(u, type, amount, reference) ==
  [user_id |-> u, type |-> type, amount_sats |-> amount, reference |-> reference]

\* attempt_k_score IS NULL
NoScore == -1

NewEntry(paymentHash) ==
  [attempts_used |-> 0, max_attempts |-> 3, payment_hash |-> paymentHash,
   best_score |-> 0, attempt_score |-> <<NoScore, NoScore, NoScore>>]

\* variant: the INSERT carries no ON CONFLICT clause and no unique index
\* the id of user u's Entry in the tournament of the current date (one Entry
\* per user and tournament)
EntryId(u) == <<today, u>>

OnConflict_Never(u) == FALSE

\* ON CONFLICT (tournament_id, user_id): the user has a row in the tournament
OnConflict(u) == u \in DOMAIN entries

NoInfo == [userId |-> "none", amount |-> 0]

ReqIdle ==
  [kind |-> "none", pc |-> "idle", userId |-> "none", hash |-> "none",
   amount |-> 0, attemptsUsed |-> 0, info |-> NoInfo, isNew |-> FALSE,
   invoiceStillExists |-> FALSE,
   deleted |-> FALSE, debited |-> FALSE, result |-> "none",
   winners |-> << >>, idx |-> 0,
   status |-> 0, code |-> "none", attemptNumber |-> 0,
   attemptId |-> 0, score |-> 0, pending |-> << >>, signature |-> << >>,
   key |-> "none", ttl |-> 0, existed |-> FALSE, at |-> 0,
   path |-> << >>, csrfOk |-> FALSE,
   k1 |-> -1, linkingKey |-> "none", validSig |-> FALSE,
   keys |-> {}, destroyed |-> {}, entryId |-> << >>]

DropKey(f, k) == [x \in DOMAIN f \ {k} |-> f[x]]
PutKey(f, k, v) == [x \in DOMAIN f \cup {k} |-> IF x = k THEN v ELSE f[x]]

\* INSERT INTO tournament_entries: one more row of user u
InsertEntry(u, e) ==
  /\ entries' = PutKey(entries, u, e)
  /\ entryRows' = [entryRows EXCEPT ![u] = @ + 1]

\* handler p has returned its response
Respond(p, status, code) ==
  [req[p] EXCEPT !.pc = "done", !.status = status, !.code = code]

\* slots are taken in order, which removes the symmetry between idle slots
CanStart(p) ==
  /\ req[p].pc = "idle"
  /\ \A q \in Procs : q < p => req[q].pc # "idle"

UNCHANGED_Cache ==
  UNCHANGED <<cacheDeposit, cacheInvoice, cacheWebhook, cacheAttempt,
              cacheDepositUser, cacheInvoiceUser>>
UNCHANGED_Engine ==
  UNCHANGED <<payouts, isProcessing, tomorrowCreated, lnPaid, lnPayments,
              sessions, storeVars>>

\* ------------------------------------------------- wallets.credit / debit
\* INSERT INTO transactions (...) of wallets.credit
WalletsCreditInsert(u, amountSats, type, reference) ==
  transactions' = transactions (+) SetToBag({TxRow(u, type, amountSats, reference)})

\* variant: the upsert of wallets.credit leaves the balance as it was
WalletsCreditUpsert_Lost(u, amountSats) ==
  wallets' = wallets

\* INSERT INTO user_wallets ... ON CONFLICT DO UPDATE SET balance_sats = balance_sats + $2
WalletsCreditUpsert(u, amountSats) ==
  wallets' = [wallets EXCEPT ![u] = @ + amountSats]

\* SELECT balance_sats ...; throws 'Insufficient balance' when it is too low
WalletsDebitSelectOk(u, amountSats) == wallets[u] >= amountSats

\* INSERT INTO transactions (...) of wallets.debit, with -amountSats
WalletsDebitInsert(u, amountSats, type) ==
  transactions' = transactions (+) SetToBag({TxRow(u, type, 0 - amountSats, "null")})

\* variant: the UPDATE of wallets.debit without "AND balance_sats >= $2"
WalletsDebitUpdateGuard_None(u, amountSats) == TRUE

\* UPDATE user_wallets SET balance_sats = balance_sats - $2
\*   WHERE user_id = $1 AND balance_sats >= $2 RETURNING *
WalletsDebitUpdateGuard(u, amountSats) == wallets[u] >= amountSats

WalletsDebitUpdate(u, amountSats) ==
  wallets' = IF WalletsDebitUpdateGuard(u, amountSats)
             THEN [wallets EXCEPT ![u] = @ - amountSats]
             ELSE wallets

\* variant: incrementAttempt without "AND attempts_used < max_attempts"
IncrementAttemptGuard_None(e) == TRUE

\* UPDATE tournament_entries SET attempts_used = attempts_used + 1
\*   WHERE id = $1 AND attempts_used < max_attempts RETURNING *
IncrementAttemptGuard(e) == e.attempts_used < e.max_attempts

\* UPDATE tournaments SET prize_pool_sats = prize_pool_sats + $2
UpdatePrizePool(amount) ==
  tournament' = [tournament EXCEPT !.prize_pool_sats = @ + amount]

\* ------------------------------------------------ POST /game/start-attempt
\* findCurrent and the status check
SA_FindCurrent(p) ==
  /\ CanStart(p)
  /\ \E u \in Callers :
       req' = [req EXCEPT ![p] =
                 IF tournament.status # "open"
                 THEN [Respond(p, 400, "NO_TOURNAMENT") EXCEPT
                         !.kind = "start_attempt", !.userId = u]
                 ELSE [@ EXCEPT !.kind = "start_attempt", !.userId = u,
                                !.pc = "sa_entry"]]
  /\ UNCHANGED <<wallets, transactions, tournament, entries, entryRows>>
  /\ UNCHANGED_Cache /\ UNCHANGED_Engine

\* getOrCreateEntry (one upsert) and the attempts limit check
SA_GetOrCreateEntry(p) ==
  /\ req[p].pc = "sa_entry"
  /\ LET u == req[p].userId
         e == IF OnConflict(u) THEN entries[u] ELSE NewEntry("null")
     IN  /\ IF OnConflict(u) THEN UNCHANGED <<entries, entryRows>>
            ELSE InsertEntry(u, e)
         /\ req' = [req EXCEPT ![p] =
                      IF e.attempts_used >= MAX_ATTEMPTS_PER_TOURNAMENT
                      THEN [Respond(p, 400, "MAX_ATTEMPTS") EXCEPT
                              !.attemptsUsed = e.attempts_used]
                      ELSE [@ EXCEPT !.attemptsUsed = e.attempts_used,
                                     !.amount = CostSats,
                                     !.pc = "sa_balance"]]
  /\ UNCHANGED <<wallets, transactions, tournament>>
  /\ UNCHANGED_Cache /\ UNCHANGED_Engine

\* variant: start-attempt without the balance check
SA_CheckBalance_NoCheck(p) ==
  /\ req[p].pc = "sa_balance"
  /\ req' = [req EXCEPT ![p].pc = "sa_debit_select"]
  /\ UNCHANGED <<wallets, transactions, tournament, entries, entryRows>>
  /\ UNCHANGED_Cache /\ UNCHANGED_Engine

\* wallets.getByUserId and the balance check
SA_CheckBalance(p) ==
  /\ req[p].pc = "sa_balance"
  /\ req' = [req EXCEPT ![p] =
               IF wallets[req[p].userId] < req[p].amount
               THEN Respond(p, 400, "INSUFFICIENT_BALANCE")
               ELSE [@ EXCEPT !.pc = "sa_debit_select"]]
  /\ UNCHANGED <<wallets, transactions, tournament, entries, entryRows>>
  /\ UNCHANGED_Cache /\ UNCHANGED_Engine

\* wallets.debit, first statement; a throw ends in next(error)
SA_DebitSelect(p) ==
  /\ req[p].pc = "sa_debit_select"
  /\ req' = [req EXCEPT ![p] =
               IF WalletsDebitSelectOk(req[p].userId, req[p].amount)
               THEN [@ EXCEPT !.pc = "sa_debit_insert"]
               ELSE Respond(p, 500, "ERROR")]
  /\ UNCHANGED <<wallets, transactions, tournament, entries, entryRows>>
  /\ UNCHANGED_Cache /\ UNCHANGED_Engine

SA_DebitInsert(p) ==
  /\ req[p].pc = "sa_debit_insert"
  /\ WalletsDebitInsert(req[p].userId, req[p].amount, "buy_in")
  /\ req' = [req EXCEPT ![p].pc = "sa_debit_update"]
  /\ UNCHANGED <<wallets, tournament, entries, entryRows>>
  /\ UNCHANGED_Cache /\ UNCHANGED_Engine

\* the guarded UPDATE; its result (row or null) is not inspected by the route
SA_DebitUpdate(p) ==
  /\ req[p].pc = "sa_debit_update"
  /\ WalletsDebitUpdate(req[p].userId, req[p].amount)
  /\ req' = [req EXCEPT ![p].pc = "sa_increment",
                        ![p].debited =
                           WalletsDebitUpdateGuard(req[p].userId, req[p].amount)]
  /\ UNCHANGED <<transactions, tournament, entries, entryRows>>
  /\ UNCHANGED_Cache /\ UNCHANGED_Engine

\* entries.incrementAttempt; null sends the handler to the refund
SA_IncrementAttempt(p) ==
  /\ req[p].pc = "sa_increment"
  /\ LET u == req[p].userId
     IN  IF IncrementAttemptGuard(entries[u])
         THEN /\ entries' = [entries EXCEPT ![u].attempts_used = @ + 1]
              /\ req' = [req EXCEPT ![p].pc = "sa_pool",
                                    ![p].result = "updated",
                                    ![p].attemptNumber =
                                       entries[u].attempts_used + 1]
         ELSE /\ entries' = entries
              /\ req' = [req EXCEPT ![p].pc = "sa_refund_insert",
                                    ![p].result = "null"]
  /\ UNCHANGED <<wallets, transactions, tournament, entryRows>>
  /\ UNCHANGED_Cache /\ UNCHANGED_Engine

\* wallets.credit(userId, costSats, 'refund', ...), first statement
SA_RefundInsert(p) ==
  /\ req[p].pc = "sa_refund_insert"
  /\ WalletsCreditInsert(req[p].userId, req[p].amount, "refund", "null")
  /\ req' = [req EXCEPT ![p].pc = "sa_refund_upsert"]
  /\ UNCHANGED <<wallets, tournament, entries, entryRows>>
  /\ UNCHANGED_Cache /\ UNCHANGED_Engine

\* wallets.credit, second statement, then 500 'Failed to start attempt'
SA_RefundUpsert(p) ==
  /\ req[p].pc = "sa_refund_upsert"
  /\ WalletsCreditUpsert(req[p].userId, req[p].amount)
  /\ req' = [req EXCEPT ![p] = Respond(p, 500, "FAILED_TO_START")]
  /\ UNCHANGED <<transactions, tournament, entries, entryRows>>
  /\ UNCHANGED_Cache /\ UNCHANGED_Engine

SA_UpdatePrizePool(p) ==
  /\ req[p].pc = "sa_pool"
  /\ UpdatePrizePool(req[p].amount)
  /\ req' = [req EXCEPT ![p].pc = "sa_handle"]
  /\ UNCHANGED <<wallets, transactions, entries, entryRows>>
  /\ UNCHANGED_Cache /\ UNCHANGED_Engine

\* cache.set('attempt:<id>', ...) and the 200 response
SA_SetAttempt(p) ==
  /\ req[p].pc = "sa_handle"
  /\ cacheAttempt' = [x \in DOMAIN cacheAttempt \cup {p} |->
                        IF x = p
                        THEN [userId |-> req[p].userId,
                              entryId |-> EntryId(req[p].userId),
                              attemptNumber |-> req[p].attemptNumber]
                        ELSE cacheAttempt[x]]
  /\ req' = [req EXCEPT ![p] = Respond(p, 200, "success")]
  /\ UNCHANGED <<wallets, transactions, tournament, entries, entryRows>>
  /\ UNCHANGED <<cacheDeposit, cacheInvoice, cacheWebhook, cacheDepositUser,
                 cacheInvoiceUser>>
  /\ UNCHANGED_Engine

StartAttempt(p) ==
  \/ SA_FindCurrent(p) \/ SA_GetOrCreateEntry(p) \/ SA_CheckBalance(p)
  \/ SA_DebitSelect(p) \/ SA_DebitInsert(p) \/ SA_DebitUpdate(p)
  \/ SA_IncrementAttempt(p) \/ SA_RefundInsert(p) \/ SA_RefundUpsert(p)
  \/ SA_UpdatePrizePool(p) \/ SA_SetAttempt(p)

\* ------------------------------------------------------ POST /wallet/buy-in
\* findCurrent and the status check
BI_FindCurrent(p) ==
  /\ CanStart(p)
  /\ \E u \in Callers :
       req' = [req EXCEPT ![p] =
                 IF tournament.status # "open"
                 THEN [Respond(p, 400, "NO_TOURNAMENT") EXCEPT
                         !.kind = "wallet_buy_in", !.userId = u]
                 ELSE [@ EXCEPT !.kind = "wallet_buy_in", !.userId = u,
                                !.pc = "bi_entry"]]
  /\ UNCHANGED <<wallets, transactions, tournament, entries, entryRows>>
  /\ UNCHANGED_Cache /\ UNCHANGED_Engine

\* findByUserAndTournament: 'Already entered this tournament'
BI_FindEntry(p) ==
  /\ req[p].pc = "bi_entry"
  /\ req' = [req EXCEPT ![p] =
               IF req[p].userId \in DOMAIN entries
               THEN Respond(p, 400, "ALREADY_ENTERED")
               ELSE [@ EXCEPT !.amount = CostSats, !.pc = "bi_balance"]]
  /\ UNCHANGED <<wallets, transactions, tournament, entries, entryRows>>
  /\ UNCHANGED_Cache /\ UNCHANGED_Engine

BI_CheckBalance(p) ==
  /\ req[p].pc = "bi_balance"
  /\ req' = [req EXCEPT ![p] =
               IF wallets[req[p].userId] < req[p].amount
               THEN Respond(p, 400, "INSUFFICIENT_BALANCE")
               ELSE [@ EXCEPT !.pc = "bi_debit_select"]]
  /\ UNCHANGED <<wallets, transactions, tournament, entries, entryRows>>
  /\ UNCHANGED_Cache /\ UNCHANGED_Engine

BI_DebitSelect(p) ==
  /\ req[p].pc = "bi_debit_select"
  /\ req' = [req EXCEPT ![p] =
               IF WalletsDebitSelectOk(req[p].userId, req[p].amount)
               THEN [@ EXCEPT !.pc = "bi_debit_insert"]
               ELSE Respond(p, 500, "ERROR")]
  /\ UNCHANGED <<wallets, transactions, tournament, entries, entryRows>>
  /\ UNCHANGED_Cache /\ UNCHANGED_Engine

BI_DebitInsert(p) ==
  /\ req[p].pc = "bi_debit_insert"
  /\ WalletsDebitInsert(req[p].userId, req[p].amount, "buy_in")
  /\ req' = [req EXCEPT ![p].pc = "bi_debit_update"]
  /\ UNCHANGED <<wallets, tournament, entries, entryRows>>
  /\ UNCHANGED_Cache /\ UNCHANGED_Engine

BI_DebitUpdate(p) ==
  /\ req[p].pc = "bi_debit_update"
  /\ WalletsDebitUpdate(req[p].userId, req[p].amount)
  /\ req' = [req EXCEPT ![p].pc = "bi_create",
                        ![p].debited =
                           WalletsDebitUpdateGuard(req[p].userId, req[p].amount)]
  /\ UNCHANGED <<transactions, tournament, entries, entryRows>>
  /\ UNCHANGED_Cache /\ UNCHANGED_Engine

\* entries.create(tournament.id, userId, 'wallet_buy_in'):
\*   INSERT ... ON CONFLICT (tournament_id, user_id) DO NOTHING RETURNING *
BI_CreateEntry(p) ==
  /\ req[p].pc = "bi_create"
  /\ LET u == req[p].userId
     IN  IF OnConflict(u)
         THEN /\ UNCHANGED <<entries, entryRows>>
              /\ req' = [req EXCEPT ![p].pc = "bi_refund_insert",
                                    ![p].result = "null"]
         ELSE /\ InsertEntry(u, NewEntry("wallet_buy_in"))
              /\ req' = [req EXCEPT ![p].pc = "bi_pool",
                                    ![p].result = "created"]
  /\ UNCHANGED <<wallets, transactions, tournament>>
  /\ UNCHANGED_Cache /\ UNCHANGED_Engine

\* wallets.credit(userId, buyInSats, 'buy_in', 'Buy-in refund ...')
BI_RefundInsert(p) ==
  /\ req[p].pc = "bi_refund_insert"
  /\ WalletsCreditInsert(req[p].userId, req[p].amount, "buy_in", "null")
  /\ req' = [req EXCEPT ![p].pc = "bi_refund_upsert"]
  /\ UNCHANGED <<wallets, tournament, entries, entryRows>>
  /\ UNCHANGED_Cache /\ UNCHANGED_Engine

BI_RefundUpsert(p) ==
  /\ req[p].pc = "bi_refund_upsert"
  /\ WalletsCreditUpsert(req[p].userId, req[p].amount)
  /\ req' = [req EXCEPT ![p] = Respond(p, 500, "FAILED_TO_CREATE_ENTRY")]
  /\ UNCHANGED <<transactions, tournament, entries, entryRows>>
  /\ UNCHANGED_Cache /\ UNCHANGED_Engine

BI_UpdatePrizePool(p) ==
  /\ req[p].pc = "bi_pool"
  /\ UpdatePrizePool(req[p].amount)
  /\ req' = [req EXCEPT ![p] = Respond(p, 200, "success")]
  /\ UNCHANGED <<wallets, transactions, entries, entryRows>>
  /\ UNCHANGED_Cache /\ UNCHANGED_Engine

WalletBuyIn(p) ==
  \/ BI_FindCurrent(p) \/ BI_FindEntry(p) \/ BI_CheckBalance(p)
  \/ BI_DebitSelect(p) \/ BI_DebitInsert(p) \/ BI_DebitUpdate(p)
  \/ BI_CreateEntry(p) \/ BI_RefundInsert(p) \/ BI_RefundUpsert(p)
  \/ BI_UpdatePrizePool(p)

\* ----------------------------------------------------- cache primitives
\* variant: cache.del reports true whether or not the key existed
CacheDel_AlwaysTrue(store, key) == TRUE

\* cache.del(key) -> true iff the key existed (Redis DEL > 0)
CacheDel(store, key) == key \in DOMAIN store

\* cache.setIfNotExists(key) -> true iff newly set (Redis SET NX)
SetIfNotExists(markers, key) == key \notin markers

\* db.withTransaction(fn): the statements of fn commit as one atomic step
WithTransaction(fn) == fn

\* --------------------------------------------------------- POST /game/submit
Max(a, b) == IF a >= b THEN a ELSE b

\* UPDATE tournament_entries SET attempt_k_score = $3,
\*   best_score = GREATEST(best_score, $3) WHERE id = $1
RecordAttemptScore(e, k, score) ==
  [e EXCEPT !.attempt_score[k] = score, !.best_score = Max(@, score)]

\* variant: SET best_score = $2
UpdateBestScore_Overwrite(e, score) ==
  [e EXCEPT !.best_score = score]

\* UPDATE tournament_entries SET best_score = GREATEST(best_score, $2)
UpdateBestScore(e, score) ==
  [e EXCEPT !.best_score = Max(@, score)]

\* validateGameSession on the request's score, level, duration and input log;
\* a passing submission goes on to sessions.create
SB_Validate(p, r) ==
  \E sc \in SubmitScores, valid \in BOOLEAN :
    req' = [req EXCEPT ![p] =
              IF valid THEN [r EXCEPT !.score = sc, !.pc = "sb_session"]
              ELSE [r EXCEPT !.score = sc, !.pc = "done", !.status = 400,
                             !.code = "VALIDATION_FAILED"]]

\* findCurrent and the status check
SB_FindCurrent(p) ==
  /\ CanStart(p)
  /\ \E u \in Callers :
       req' = [req EXCEPT ![p] =
                 IF tournament.status # "open"
                 THEN [Respond(p, 400, "NO_TOURNAMENT") EXCEPT
                         !.kind = "submit", !.userId = u]
                 ELSE [@ EXCEPT !.kind = "submit", !.userId = u,
                                !.pc = "sb_entry"]]
  /\ UNCHANGED <<wallets, transactions, tournament, entries, entryRows>>
  /\ UNCHANGED_Cache /\ UNCHANGED_Engine

\* findByUserAndTournament; without attemptId (0) the legacy flow goes
\* straight to the anti-cheat validation
SB_FindEntry(p) ==
  /\ req[p].pc = "sb_entry"
  /\ IF req[p].userId \notin DOMAIN entries
     THEN req' = [req EXCEPT ![p] = Respond(p, 403, "NO_ENTRY")]
     ELSE \E a \in {0} \cup AttemptIds :
            IF a = 0
            THEN SB_Validate(p, req[p])
            ELSE req' = [req EXCEPT ![p].attemptId = a, ![p].pc = "sb_get"]
  /\ UNCHANGED <<wallets, transactions, tournament, entries, entryRows>>
  /\ UNCHANGED_Cache /\ UNCHANGED_Engine

\* activeAttempt = cache.get('attempt:<id>') and the ownership check
SB_GetAttempt(p) ==
  /\ req[p].pc = "sb_get"
  /\ LET a == req[p].attemptId
     IN  req' = [req EXCEPT ![p] =
                   IF a \notin DOMAIN cacheAttempt
                   THEN Respond(p, 400, "INVALID_ATTEMPT")
                   ELSE IF cacheAttempt[a].userId # req[p].userId
                   THEN Respond(p, 403, "UNAUTHORIZED_ATTEMPT")
                   ELSE [@ EXCEPT !.attemptNumber = cacheAttempt[a].attemptNumber,
                                  !.entryId = cacheAttempt[a].entryId,
                                  !.pc = "sb_del"]]
  /\ UNCHANGED <<wallets, transactions, tournament, entries, entryRows>>
  /\ UNCHANGED_Cache /\ UNCHANGED_Engine

\* variant: the handle is left in the cache
SB_DelAttempt_Keep(p) ==
  /\ req[p].pc = "sb_del"
  /\ SB_Validate(p, req[p])
  /\ UNCHANGED <<wallets, transactions, tournament, entries, entryRows>>
  /\ UNCHANGED_Cache /\ UNCHANGED_Engine

\* cache.del('attempt:<id>'), result not inspected; then the validation
SB_DelAttempt(p) ==
  /\ req[p].pc = "sb_del"
  /\ cacheAttempt' = DropKey(cacheAttempt, req[p].attemptId)
  /\ SB_Validate(p, req[p])
  /\ UNCHANGED <<wallets, transactions, tournament, entries, entryRows,
                 cacheDeposit, cacheInvoice, cacheWebhook, cacheDepositUser,
                 cacheInvoiceUser>>
  /\ UNCHANGED_Engine

\* sessions.create(entry.id, score, ...)
SB_CreateSession(p) ==
  /\ req[p].pc = "sb_session"
  /\ sessions' = sessions \cup {[id |-> p, entry |-> req[p].userId,
                                  score |-> req[p].score]}
  /\ req' = [req EXCEPT ![p].pc = "sb_record"]
  /\ UNCHANGED <<wallets, transactions, tournament, entries, entryRows,
                 payouts, isProcessing, tomorrowCreated, lnPaid, lnPayments, storeVars>>
  /\ UNCHANGED_Cache

\* recordAttemptScore when the handle gave an attempt number, else the
\* legacy updateBestScore; then the 200 response
SB_RecordScore(p) ==
  /\ req[p].pc = "sb_record"
  /\ LET u == req[p].userId
         k == req[p].attemptNumber
     IN  IF k = 0
         THEN /\ entries' = [entries EXCEPT ![u] = UpdateBestScore(@, req[p].score)]
              /\ req' = [req EXCEPT ![p] = Respond(p, 200, "accepted")]
         ELSE IF k \in 1..3
         THEN /\ entries' = [entries EXCEPT
                               ![u] = RecordAttemptScore(@, k, req[p].score)]
              /\ req' = [req EXCEPT ![p] = Respond(p, 200, "accepted")]
         ELSE /\ entries' = entries
              /\ req' = [req EXCEPT ![p] = Respond(p, 500, "ERROR")]
  /\ UNCHANGED <<wallets, transactions, tournament, entryRows>>
  /\ UNCHANGED_Cache /\ UNCHANGED_Engine

Submit(p) ==
  \/ SB_FindCurrent(p) \/ SB_FindEntry(p) \/ SB_GetAttempt(p)
  \/ SB_DelAttempt(p) \/ SB_CreateSession(p) \/ SB_RecordScore(p)

\* ------------------------------------------- GET /wallet/deposit/status/:hash
\* cache.get('deposit:<hash>'), the ownership check and the age check
DS_Get(p) ==
  /\ CanStart(p)
  /\ \E u \in Callers, h \in Hashes, expired \in BOOLEAN :
       LET r == [req[p] EXCEPT !.kind = "deposit_status", !.userId = u,
                               !.hash = h]
       IN  req' = [req EXCEPT ![p] =
             IF h \notin DOMAIN cacheDeposit
             THEN [r EXCEPT !.pc = "done", !.status = 404, !.code = "NOT_FOUND"]
             ELSE IF cacheDeposit[h].userId # u
             THEN [r EXCEPT !.pc = "done", !.status = 403, !.code = "ACCESS_DENIED"]
             ELSE IF expired
             THEN [r EXCEPT !.info = cacheDeposit[h], !.pc = "ds_expired"]
             ELSE [r EXCEPT !.info = cacheDeposit[h], !.pc = "ds_check"]]
  /\ UNCHANGED <<wallets, transactions, tournament, entries, entryRows>>
  /\ UNCHANGED_Cache /\ UNCHANGED_Engine

\* age > DEPOSIT_TTL: cache.del and { paid: false, expired: true }
DS_Expired(p) ==
  /\ req[p].pc = "ds_expired"
  /\ cacheDeposit' = DropKey(cacheDeposit, req[p].hash)
  /\ req' = [req EXCEPT ![p] = Respond(p, 200, "expired")]
  /\ UNCHANGED <<wallets, transactions, tournament, entries, entryRows, cacheInvoice,
                 cacheWebhook, cacheAttempt, cacheDepositUser, cacheInvoiceUser>>
  /\ UNCHANGED_Engine

\* checkPayment(hash)
DS_CheckPayment(p) ==
  /\ req[p].pc = "ds_check"
  /\ req' = [req EXCEPT ![p] =
               IF req[p].hash \in lnPaid THEN [@ EXCEPT !.pc = "ds_del"]
               ELSE Respond(p, 200, "not_paid")]
  /\ UNCHANGED <<wallets, transactions, tournament, entries, entryRows>>
  /\ UNCHANGED_Cache /\ UNCHANGED_Engine

\* the atomic claim: deleted = cache.del('deposit:<hash>')
DS_Del(p) ==
  /\ req[p].pc = "ds_del"
  /\ cacheDeposit' = DropKey(cacheDeposit, req[p].hash)
  /\ req' = [req EXCEPT ![p] =
               IF CacheDel(cacheDeposit, req[p].hash)
               THEN [@ EXCEPT !.deleted = TRUE, !.pc = "ds_del_user"]
               ELSE Respond(p, 200, "alreadyProcessed")]
  /\ UNCHANGED <<wallets, transactions, tournament, entries, entryRows, cacheInvoice,
                 cacheWebhook, cacheAttempt, cacheDepositUser, cacheInvoiceUser>>
  /\ UNCHANGED_Engine

\* cache.del('deposit:user:<userId>')
DS_DelUser(p) ==
  /\ req[p].pc = "ds_del_user"
  /\ cacheDepositUser' = DropKey(cacheDepositUser, req[p].userId)
  /\ req' = [req EXCEPT ![p].pc = "ds_credit_insert"]
  /\ UNCHANGED <<wallets, transactions, tournament, entries, entryRows, cacheDeposit,
                 cacheInvoice, cacheWebhook, cacheAttempt, cacheInvoiceUser>>
  /\ UNCHANGED_Engine

\* wallets.credit(userId, pendingInfo.amount, 'deposit', ..., hash)
DS_CreditInsert(p) ==
  /\ req[p].pc = "ds_credit_insert"
  /\ WalletsCreditInsert(req[p].userId, req[p].info.amount, "deposit", req[p].hash)
  /\ req' = [req EXCEPT ![p].pc = "ds_credit_upsert"]
  /\ UNCHANGED <<wallets, tournament, entries, entryRows>>
  /\ UNCHANGED_Cache /\ UNCHANGED_Engine

DS_CreditUpsert(p) ==
  /\ req[p].pc = "ds_credit_upsert"
  /\ WalletsCreditUpsert(req[p].userId, req[p].info.amount)
  /\ req' = [req EXCEPT ![p] = Respond(p, 200, "paid")]
  /\ UNCHANGED <<transactions, tournament, entries, entryRows>>
  /\ UNCHANGED_Cache /\ UNCHANGED_Engine

DepositStatus(p) ==
  \/ DS_Get(p) \/ DS_Expired(p) \/ DS_CheckPayment(p) \/ DS_Del(p)
  \/ DS_DelUser(p) \/ DS_CreditInsert(p) \/ DS_CreditUpsert(p)

\* --------------------------------------------------------- processPayment
\* variant: runInTransaction without the findByUserAndTournament lookup
RunInTransaction_NoLookup(p) ==
  /\ InsertEntry(req[p].info.userId, NewEntry(req[p].hash))
  /\ UpdatePrizePool(req[p].info.amount)
  /\ req' = [req EXCEPT ![p].result = "success", ![p].pc = "pp_del"]

\* runInTransaction: find the entry, else create it and add to the prize pool
RunInTransaction(p) ==
  LET u == req[p].info.userId
  IN  IF u \in DOMAIN entries
      THEN /\ req' = [req EXCEPT ![p].result = "existing", ![p].pc = "pp_del"]
           /\ UNCHANGED <<entries, entryRows, tournament>>
      ELSE /\ InsertEntry(u, NewEntry(req[p].hash))
           /\ UpdatePrizePool(req[p].info.amount)
           /\ req' = [req EXCEPT ![p].result = "success", ![p].pc = "pp_del"]

PP_Transaction(p) ==
  /\ req[p].pc = "pp_txn"
  /\ WithTransaction(RunInTransaction(p))
  /\ UNCHANGED <<wallets, transactions>>
  /\ UNCHANGED_Cache /\ UNCHANGED_Engine

\* cache.del('invoice:<hash>') and the caller's response
PP_DelInvoice(p) ==
  /\ req[p].pc = "pp_del"
  /\ cacheInvoice' = DropKey(cacheInvoice, req[p].hash)
  /\ req' = [req EXCEPT ![p] =
               IF req[p].kind = "webhook" THEN Respond(p, 200, "processed")
               ELSE Respond(p, 200, "paid")]
  /\ UNCHANGED <<wallets, transactions, tournament, entries, entryRows, cacheDeposit,
                 cacheWebhook, cacheAttempt, cacheDepositUser, cacheInvoiceUser>>
  /\ UNCHANGED_Engine

\* ------------------------------------------------ GET /payments/status/:hash
PS_Get(p) ==
  /\ CanStart(p)
  /\ \E u \in Callers, h \in Hashes, expired \in BOOLEAN :
       LET r == [req[p] EXCEPT !.kind = "payment_status", !.userId = u,
                               !.hash = h]
       IN  req' = [req EXCEPT ![p] =
             IF h \notin DOMAIN cacheInvoice
             THEN [r EXCEPT !.pc = "ps_notfound"]
             ELSE IF cacheInvoice[h].userId # u
             THEN [r EXCEPT !.pc = "done", !.status = 403, !.code = "UNAUTHORIZED"]
             ELSE IF expired
             THEN [r EXCEPT !.info = cacheInvoice[h], !.pc = "ps_expired"]
             ELSE [r EXCEPT !.info = cacheInvoice[h], !.pc = "ps_check"]]
  /\ UNCHANGED <<wallets, transactions, tournament, entries, entryRows>>
  /\ UNCHANGED_Cache /\ UNCHANGED_Engine

\* no intent: the caller's entry decides between paid and 404
PS_NotFound(p) ==
  /\ req[p].pc = "ps_notfound"
  /\ req' = [req EXCEPT ![p] =
               IF req[p].userId \in DOMAIN entries THEN Respond(p, 200, "paid")
               ELSE Respond(p, 404, "INVOICE_NOT_FOUND")]
  /\ UNCHANGED <<wallets, transactions, tournament, entries, entryRows>>
  /\ UNCHANGED_Cache /\ UNCHANGED_Engine

PS_Expired(p) ==
  /\ req[p].pc = "ps_expired"
  /\ cacheInvoice' = DropKey(cacheInvoice, req[p].hash)
  /\ req' = [req EXCEPT ![p] = Respond(p, 200, "expired")]
  /\ UNCHANGED <<wallets, transactions, tournament, entries, entryRows, cacheDeposit,
                 cacheWebhook, cacheAttempt, cacheDepositUser, cacheInvoiceUser>>
  /\ UNCHANGED_Engine

PS_CheckPayment(p) ==
  /\ req[p].pc = "ps_check"
  /\ req' = [req EXCEPT ![p] =
               IF req[p].hash \in lnPaid THEN [@ EXCEPT !.pc = "pp_txn"]
               ELSE Respond(p, 200, "not_paid")]
  /\ UNCHANGED <<wallets, transactions, tournament, entries, entryRows>>
  /\ UNCHANGED_Cache /\ UNCHANGED_Engine

PaymentStatus(p) ==
  \/ PS_Get(p) \/ PS_NotFound(p) \/ PS_Expired(p) \/ PS_CheckPayment(p)

\* ---------------------------------------------------- POST /payments/webhook
\* Signature headers are strings over hex digits and other characters; the
\* HMAC-SHA256 digest is SigBytes bytes long
HexDigits == {"a", "b"}

SigChars == HexDigits \cup {"z"}

SigBytes == 1

MaxSigLen == 2 * SigBytes + 1

Signatures == UNION {[1..n -> SigChars] : n \in 0..MaxSigLen}

\* crypto.createHmac('sha256', webhookSecret).update(payload).digest('hex')
ExpectedSignature == <<"a", "b">>

\* LNBITS_WEBHOOK_SECRET
WebhookSecret == "secret"

\* Buffer.from(s, 'hex'): one byte per pair of hex digits; decoding stops at
\* the first pair that is not two hex digits and drops a trailing odd digit
RECURSIVE HexDecode(_)
HexDecode(s) ==
  IF Len(s) < 2 THEN << >>
  ELSE IF s[1] \in HexDigits /\ s[2] \in HexDigits
       THEN << <<s[1], s[2]>> >> \o HexDecode(SubSeq(s, 3, Len(s)))
       ELSE << >>

\* verifyWebhookSignature: secret configured, header present, decoded
\* buffers of equal length, timingSafeEqual
VerifyWebhookSignature(secret, signature) ==
  /\ secret # "none"
  /\ signature # << >>
  /\ Len(HexDecode(signature)) = Len(HexDecode(ExpectedSignature))
  /\ HexDecode(signature) = HexDecode(ExpectedSignature)

\* A delivery with signature header sig: 401 unless verifyWebhookSignature
\* accepts it. An accepted delivery is {payment_hash, paid: true} of a
\* settled invoice, the payload the Lightning backend signed; its first await
\* is setIfNotExists('webhook:<hash>')
WH_Receive(p, sig) ==
  /\ IF VerifyWebhookSignature(WebhookSecret, sig)
     THEN \E h \in lnPaid :
            /\ cacheWebhook' = cacheWebhook \cup {h}
            /\ req' = [req EXCEPT ![p] =
                         [@ EXCEPT !.kind = "webhook", !.hash = h,
                                   !.signature = sig,
                                   !.isNew = SetIfNotExists(cacheWebhook, h),
                                   !.pc = IF SetIfNotExists(cacheWebhook, h)
                                          THEN "wh_get_invoice"
                                          ELSE "wh_probe_invoice"]]
     ELSE /\ req' = [req EXCEPT ![p] =
                       [Respond(p, 401, "INVALID_SIGNATURE")
                          EXCEPT !.kind = "webhook", !.signature = sig]]
          /\ UNCHANGED cacheWebhook
  /\ UNCHANGED <<wallets, transactions, tournament, entries, entryRows, cacheDeposit,
                 cacheInvoice, cacheAttempt, cacheDepositUser, cacheInvoiceUser>>
  /\ UNCHANGED_Engine

\* the delivery the Lightning backend sends, carrying the HMAC of its payload
WH_SetIfNotExists(p) ==
  /\ CanStart(p)
  /\ WH_Receive(p, ExpectedSignature)

\* a delivery from any sender, with any signature header or none
WH_AnySignature(p) ==
  /\ CanStart(p)
  /\ \E sig \in Signatures : WH_Receive(p, sig)

\* seen before: invoiceStillExists = cache.get('invoice:<hash>')
WH_ProbeInvoice(p) ==
  /\ req[p].pc = "wh_probe_invoice"
  /\ req' = [req EXCEPT ![p].invoiceStillExists = req[p].hash \in DOMAIN cacheInvoice,
                        ![p].pc = "wh_probe_deposit"]
  /\ UNCHANGED <<wallets, transactions, tournament, entries, entryRows>>
  /\ UNCHANGED_Cache /\ UNCHANGED_Engine

\* variant: a delivery that finds the marker is answered as a duplicate
\* without probing the intents
WH_ProbeDeposit_AlwaysDuplicate(p) ==
  /\ req[p].pc = "wh_probe_deposit"
  /\ req' = [req EXCEPT ![p] = Respond(p, 200, "duplicate")]
  /\ UNCHANGED <<wallets, transactions, tournament, entries, entryRows>>
  /\ UNCHANGED_Cache /\ UNCHANGED_Engine

\* depositStillExists = cache.get('deposit:<hash>'); neither: duplicate
WH_ProbeDeposit(p) ==
  /\ req[p].pc = "wh_probe_deposit"
  /\ req' = [req EXCEPT ![p] =
               IF ~req[p].invoiceStillExists /\ req[p].hash \notin DOMAIN cacheDeposit
               THEN Respond(p, 200, "duplicate")
               ELSE [@ EXCEPT !.pc = "wh_get_invoice"]]
  /\ UNCHANGED <<wallets, transactions, tournament, entries, entryRows>>
  /\ UNCHANGED_Cache /\ UNCHANGED_Engine

\* pendingInfo = cache.get('invoice:<hash>')
WH_GetInvoice(p) ==
  /\ req[p].pc = "wh_get_invoice"
  /\ req' = [req EXCEPT ![p] =
               IF req[p].hash \in DOMAIN cacheInvoice
               THEN [@ EXCEPT !.info = cacheInvoice[req[p].hash], !.pc = "pp_txn"]
               ELSE [@ EXCEPT !.pc = "wh_get_deposit"]]
  /\ UNCHANGED <<wallets, transactions, tournament, entries, entryRows>>
  /\ UNCHANGED_Cache /\ UNCHANGED_Engine

\* depositInfo = cache.get('deposit:<hash>'); none: unknown invoice
WH_GetDeposit(p) ==
  /\ req[p].pc = "wh_get_deposit"
  /\ req' = [req EXCEPT ![p] =
               IF req[p].hash \in DOMAIN cacheDeposit
               THEN [@ EXCEPT !.info = cacheDeposit[req[p].hash], !.pc = "wh_del"]
               ELSE Respond(p, 200, "unknown")]
  /\ UNCHANGED <<wallets, transactions, tournament, entries, entryRows>>
  /\ UNCHANGED_Cache /\ UNCHANGED_Engine

\* the atomic claim: deleted = cache.del('deposit:<hash>')
WH_Del(p) ==
  /\ req[p].pc = "wh_del"
  /\ cacheDeposit' = DropKey(cacheDeposit, req[p].hash)
  /\ req' = [req EXCEPT ![p] =
               IF CacheDel(cacheDeposit, req[p].hash)
               THEN [@ EXCEPT !.deleted = TRUE, !.pc = "wh_del_user"]
               ELSE Respond(p, 200, "alreadyProcessed")]
  /\ UNCHANGED <<wallets, transactions, tournament, entries, entryRows, cacheInvoice,
                 cacheWebhook, cacheAttempt, cacheDepositUser, cacheInvoiceUser>>
  /\ UNCHANGED_Engine

WH_DelUser(p) ==
  /\ req[p].pc = "wh_del_user"
  /\ cacheDepositUser' = DropKey(cacheDepositUser, req[p].info.userId)
  /\ req' = [req EXCEPT ![p].pc = "wh_credit_insert"]
  /\ UNCHANGED <<wallets, transactions, tournament, entries, entryRows, cacheDeposit,
                 cacheInvoice, cacheWebhook, cacheAttempt, cacheInvoiceUser>>
  /\ UNCHANGED_Engine

WH_CreditInsert(p) ==
  /\ req[p].pc = "wh_credit_insert"
  /\ WalletsCreditInsert(req[p].info.userId, req[p].info.amount, "deposit",
                         req[p].hash)
  /\ req' = [req EXCEPT ![p].pc = "wh_credit_upsert"]
  /\ UNCHANGED <<wallets, tournament, entries, entryRows>>
  /\ UNCHANGED_Cache /\ UNCHANGED_Engine

WH_CreditUpsert(p) ==
  /\ req[p].pc = "wh_credit_upsert"
  /\ WalletsCreditUpsert(req[p].info.userId, req[p].info.amount)
  /\ req' = [req EXCEPT ![p] = Respond(p, 200, "processed")]
  /\ UNCHANGED <<transactions, tournament, entries, entryRows>>
  /\ UNCHANGED_Cache /\ UNCHANGED_Engine

\* an awaited cache or database call of the delivery throws, or the process
\* dies: catch -> next(error), nothing further is executed
WH_Fail(p) ==
  /\ req[p].kind = "webhook"
  /\ req[p].pc \in {"wh_probe_invoice", "wh_probe_deposit", "wh_get_invoice",
                    "wh_get_deposit", "wh_del", "wh_del_user",
                    "wh_credit_insert", "wh_credit_upsert", "pp_txn", "pp_del"}
  /\ req' = [req EXCEPT ![p] = Respond(p, 500, "error")]
  /\ UNCHANGED <<wallets, transactions, tournament, entries, entryRows>>
  /\ UNCHANGED_Cache /\ UNCHANGED_Engine

Webhook(p) ==
  \/ WH_SetIfNotExists(p) \/ WH_ProbeInvoice(p) \/ WH_ProbeDeposit(p)
  \/ WH_GetInvoice(p) \/ WH_GetDeposit(p) \/ WH_Del(p) \/ WH_DelUser(p)
  \/ WH_CreditInsert(p) \/ WH_CreditUpsert(p)

ProcessPayment(p) == PP_Transaction(p) \/ PP_DelInvoice(p)

\* ------------------------------------------ TournamentEngine.closeTournament
\* houseFee = Math.floor(totalPool * 0.02); distributable = totalPool - houseFee
DistributablePool(totalPool) == totalPool - ((totalPool * HOUSE_FEE_PCT) \div 100)

\* GET /tournaments/current: Math.floor(prizePoolSats * (1 - 0.02))
DistributableSats(prizePoolSats) ==
  (prizePoolSats * (100 - HOUSE_FEE_PCT)) \div 100

\* Math.floor(distributablePool * distribution.percentage) for place i
PayoutAmount(totalPool, i) ==
  (DistributablePool(totalPool) * PRIZE_DISTRIBUTION[i]) \div 100

\* entries.getTopThree: ORDER BY best_score DESC LIMIT 3 (ties in any order)
TopThree ==
  LET n == IF Cardinality(DOMAIN entries) < 3 THEN Cardinality(DOMAIN entries)
           ELSE 3
  IN  {w \in [1..n -> DOMAIN entries] :
         /\ \A i, j \in 1..n : i < j =>
              /\ w[i] # w[j]
              /\ entries[w[i]].best_score >= entries[w[j]].best_score
         /\ \A u \in DOMAIN entries :
              (\A i \in 1..n : w[i] # u) =>
                 \A i \in 1..n : entries[w[i]].best_score >= entries[u].best_score}

\* a new payouts row; old: created_at lies more than 5 minutes back
PayoutRow(p, user, place, amount) ==
  [id |-> <<p, place>>, user_id |-> user, place |-> place,
   amount_sats |-> amount, status |-> "pending", old |-> FALSE]

\* payouts.markPaid: UPDATE payouts SET status = 'paid' WHERE id = $1
MarkPaid(id) ==
  {IF r.id = id THEN [r EXCEPT !.status = "paid"] ELSE r : r \in payouts}

\* processPayout called by p: payToAddress succeeds (ok) or fails; markPaid
\* on success, nothing written on failure
ProcessPayout(p, id, ok) ==
  /\ lnPayments' = lnPayments \cup {[payout |-> id, by |-> p, ok |-> ok]}
  /\ payouts' = IF ok THEN MarkPaid(id) ELSE payouts

\* the records processPayout writes to the log, one per payToAddress outcome:
\* '[PAYOUT] SUCCESS' or '[PAYOUT] FAILED' / '[PAYOUT] ERROR'
PayoutLog ==
  {[tag |-> IF a.ok THEN "[PAYOUT] SUCCESS" ELSE "[PAYOUT] FAILED",
    payout |-> a.payout, by |-> a.by] : a \in lnPayments}

\* variant: closeTournament without the isProcessing test
CT_Begin_NoGuard(p) ==
  /\ CanStart(p)
  /\ isProcessing' = TRUE
  /\ req' = [req EXCEPT ![p] = [@ EXCEPT !.kind = "close", !.pc = "ct_find"]]
  /\ UNCHANGED <<sessions, wallets, transactions, tournament, entries,
                 entryRows, payouts, tomorrowCreated, lnPaid, lnPayments, storeVars>>
  /\ UNCHANGED_Cache

\* the isProcessing guard
CT_Begin(p) ==
  /\ CanStart(p)
  /\ IF isProcessing
     THEN /\ req' = [req EXCEPT ![p] =
                       [Respond(p, 0, "in_progress") EXCEPT !.kind = "close"]]
          /\ UNCHANGED isProcessing
     ELSE /\ isProcessing' = TRUE
          /\ req' = [req EXCEPT ![p] = [@ EXCEPT !.kind = "close", !.pc = "ct_find"]]
  /\ UNCHANGED <<sessions, wallets, transactions, tournament, entries, entryRows, payouts,
                 tomorrowCreated, lnPaid, lnPayments, storeVars>>
  /\ UNCHANGED_Cache

\* variant: closeTournament without the test of tournament.status
CT_FindCurrent_NoStatusCheck(p) ==
  /\ req[p].pc = "ct_find"
  /\ req' = [req EXCEPT ![p].amount = tournament.prize_pool_sats,
                        ![p].pc = "ct_top"]
  /\ UNCHANGED <<sessions, wallets, transactions, tournament, entries,
                 entryRows, payouts, isProcessing, tomorrowCreated, lnPaid, lnPayments, storeVars>>
  /\ UNCHANGED_Cache

\* findCurrent and the status check; the prize pool is read here
CT_FindCurrent(p) ==
  /\ req[p].pc = "ct_find"
  /\ IF tournament.status # "open"
     THEN /\ req' = [req EXCEPT ![p] = Respond(p, 0, "already_closed")]
          /\ isProcessing' = FALSE
     ELSE /\ req' = [req EXCEPT ![p].amount = tournament.prize_pool_sats,
                                ![p].pc = "ct_top"]
          /\ UNCHANGED isProcessing
  /\ UNCHANGED <<sessions, wallets, transactions, tournament, entries, entryRows, payouts,
                 tomorrowCreated, lnPaid, lnPayments, storeVars>>
  /\ UNCHANGED_Cache

\* getTopThree; no participants: close without payouts
CT_GetTopThree(p) ==
  /\ req[p].pc = "ct_top"
  /\ \E w \in TopThree :
       req' = [req EXCEPT ![p].winners = w, ![p].idx = 1,
                          ![p].pc = IF Len(w) = 0 THEN "ct_close_empty"
                                    ELSE "ct_create"]
  /\ UNCHANGED <<wallets, transactions, tournament, entries, entryRows>>
  /\ UNCHANGED_Cache /\ UNCHANGED_Engine

CT_CloseEmpty(p) ==
  /\ req[p].pc = "ct_close_empty"
  /\ tournament' = [tournament EXCEPT !.status = "completed"]
  /\ isProcessing' = FALSE
  /\ req' = [req EXCEPT ![p] = Respond(p, 0, "closed_empty")]
  /\ UNCHANGED <<sessions, wallets, transactions, entries, entryRows, payouts, tomorrowCreated, lnPaid, lnPayments, storeVars>>
  /\ UNCHANGED_Cache

\* one round of the payout creation loop: payouts.create when amount > 0
CT_CreatePayout(p) ==
  /\ req[p].pc = "ct_create"
  /\ LET i == req[p].idx
         amount == PayoutAmount(req[p].amount, i)
         last == i >= Len(req[p].winners)
     IN  /\ payouts' = IF amount > 0
                       THEN payouts \cup {PayoutRow(p, req[p].winners[i], i, amount)}
                       ELSE payouts
         /\ req' = [req EXCEPT ![p].idx = IF last THEN 1 ELSE i + 1,
                               ![p].pc = IF last THEN "ct_pay" ELSE "ct_create"]
  /\ UNCHANGED <<sessions, wallets, transactions, tournament, entries, entryRows, isProcessing,
                 tomorrowCreated, lnPaid, lnPayments, storeVars>>
  /\ UNCHANGED_Cache

\* the payouts created by this invocation, in creation order
CreatedPayouts(p) ==
  {r \in payouts : r.id[1] = p}

\* one round of the payout loop: processPayout of the row created for place
\* idx (no row was created for a place whose amount was 0)
CT_ProcessPayout(p) ==
  /\ req[p].pc = "ct_pay"
  /\ LET i == req[p].idx
         mine == {r \in CreatedPayouts(p) : r.place = i}
         last == i >= Len(req[p].winners)
     IN  /\ IF mine = {}
            THEN UNCHANGED <<payouts, lnPayments>>
            ELSE \E ok \in BOOLEAN : ProcessPayout(p, <<p, i>>, ok)
         /\ req' = [req EXCEPT ![p].idx = IF last THEN 0 ELSE i + 1,
                               ![p].pc = IF last THEN "ct_close" ELSE "ct_pay"]
  /\ UNCHANGED <<sessions, wallets, transactions, tournament, entries, entryRows, isProcessing,
                 tomorrowCreated, lnPaid, storeVars>>
  /\ UNCHANGED_Cache

\* tournaments.close
CT_Close(p) ==
  /\ req[p].pc = "ct_close"
  /\ tournament' = [tournament EXCEPT !.status = "completed"]
  /\ req' = [req EXCEPT ![p].pc = "ct_next_day"]
  /\ UNCHANGED <<sessions, wallets, transactions, entries, entryRows, payouts, isProcessing,
                 tomorrowCreated, lnPaid, lnPayments, storeVars>>
  /\ UNCHANGED_Cache

\* createNextDayTournament, then finally { isProcessing = false }
CT_NextDay(p) ==
  /\ req[p].pc = "ct_next_day"
  /\ tomorrowCreated' = TRUE
  /\ isProcessing' = FALSE
  /\ req' = [req EXCEPT ![p] = Respond(p, 0, "closed")]
  /\ UNCHANGED <<sessions, wallets, transactions, tournament, entries, entryRows, payouts, lnPaid, lnPayments, storeVars>>
  /\ UNCHANGED_Cache

\* an awaited database call of closeTournament rejects: the catch block logs
\* the error and the finally block clears isProcessing; nothing is undone
CT_Fail(p) ==
  /\ req[p].kind = "close"
  /\ req[p].pc \in {"ct_find", "ct_top", "ct_close_empty", "ct_create",
                    "ct_close", "ct_next_day"}
  /\ isProcessing' = FALSE
  /\ req' = [req EXCEPT ![p] = Respond(p, 0, "error")]
  /\ UNCHANGED <<sessions, wallets, transactions, tournament, entries,
                 entryRows, payouts, tomorrowCreated, lnPaid, lnPayments, storeVars>>
  /\ UNCHANGED_Cache

CloseTournament(p) ==
  \/ CT_Begin(p) \/ CT_FindCurrent(p) \/ CT_GetTopThree(p) \/ CT_CloseEmpty(p)
  \/ CT_CreatePayout(p) \/ CT_ProcessPayout(p) \/ CT_Close(p) \/ CT_NextDay(p)

\* ------------------------------------------------- POST /wallet/deposit
\* createInvoice: the Lightning backend mints a payment hash never used before
InvoiceHashes == <<"h1", "h2", "h3", "h4">>

CreateInvoice(p) == InvoiceHashes[p]

\* amount validation, then cache.get of deposit:user:<userId>
DP_GetUserKey(p) ==
  /\ CanStart(p)
  /\ \E u \in Callers, valid \in BOOLEAN :
       req' = [req EXCEPT ![p] =
                 IF ~valid
                 THEN [Respond(p, 400, "INVALID_AMOUNT")
                         EXCEPT !.kind = "deposit", !.userId = u]
                 ELSE IF u \in DOMAIN cacheDepositUser
                 THEN [@ EXCEPT !.kind = "deposit", !.userId = u,
                                !.amount = DepositAmount,
                                !.hash = cacheDepositUser[u],
                                !.pc = "dp_get_info"]
                 ELSE [@ EXCEPT !.kind = "deposit", !.userId = u,
                                !.amount = DepositAmount,
                                !.pc = "dp_create"]]
  /\ UNCHANGED <<wallets, transactions, tournament, entries, entryRows>>
  /\ UNCHANGED_Cache /\ UNCHANGED_Engine

\* cache.get of deposit:<existingHash>; the intent is returned when it is
\* there and expiresIn > 0 (the floor is 0 during its last second)
DP_GetInfo(p) ==
  /\ req[p].pc = "dp_get_info"
  /\ \E positive \in BOOLEAN :
       req' = [req EXCEPT ![p] =
                 IF req[p].hash \in DOMAIN cacheDeposit /\ positive
                 THEN Respond(p, 200, "existing")
                 ELSE [@ EXCEPT !.pc = "dp_del_user"]]
  /\ UNCHANGED <<wallets, transactions, tournament, entries, entryRows>>
  /\ UNCHANGED_Cache /\ UNCHANGED_Engine

\* cache.del(userDepositKey)
DP_DelUser(p) ==
  /\ req[p].pc = "dp_del_user"
  /\ cacheDepositUser' = DropKey(cacheDepositUser, req[p].userId)
  /\ req' = [req EXCEPT ![p].pc = "dp_create"]
  /\ UNCHANGED <<wallets, transactions, tournament, entries, entryRows,
                 cacheDeposit, cacheInvoice, cacheWebhook, cacheAttempt,
                 cacheInvoiceUser>>
  /\ UNCHANGED_Engine

DP_CreateInvoice(p) ==
  /\ req[p].pc = "dp_create"
  /\ req' = [req EXCEPT ![p].hash = CreateInvoice(p), ![p].isNew = TRUE,
                        ![p].pc = "dp_set"]
  /\ UNCHANGED <<wallets, transactions, tournament, entries, entryRows>>
  /\ UNCHANGED_Cache /\ UNCHANGED_Engine

\* cache.set of deposit:<paymentHash>
DP_SetDeposit(p) ==
  /\ req[p].pc = "dp_set"
  /\ cacheDeposit' = PutKey(cacheDeposit, req[p].hash,
                            [userId |-> req[p].userId, amount |-> req[p].amount])
  /\ req' = [req EXCEPT ![p].pc = "dp_set_user"]
  /\ UNCHANGED <<wallets, transactions, tournament, entries, entryRows,
                 cacheInvoice, cacheWebhook, cacheAttempt, cacheDepositUser,
                 cacheInvoiceUser>>
  /\ UNCHANGED_Engine

\* cache.set of deposit:user:<userId>, then the response
DP_SetUser(p) ==
  /\ req[p].pc = "dp_set_user"
  /\ cacheDepositUser' = PutKey(cacheDepositUser, req[p].userId, req[p].hash)
  /\ req' = [req EXCEPT ![p] = Respond(p, 200, "created")]
  /\ UNCHANGED <<wallets, transactions, tournament, entries, entryRows,
                 cacheDeposit, cacheInvoice, cacheWebhook, cacheAttempt,
                 cacheInvoiceUser>>
  /\ UNCHANGED_Engine

Deposit(p) ==
  \/ DP_GetUserKey(p) \/ DP_GetInfo(p) \/ DP_DelUser(p)
  \/ DP_CreateInvoice(p) \/ DP_SetDeposit(p) \/ DP_SetUser(p)

\* ------------------------------------- TournamentEngine.retryFailedPayouts
\* created_at order of two payouts rows: invocations start in slot order and
\* one invocation creates its rows in order of place
CreatedBefore(a, b) ==
  \/ a.id[1] < b.id[1]
  \/ a.id[1] = b.id[1] /\ a.id[2] < b.id[2]

RECURSIVE InCreationOrder(_)
InCreationOrder(S) ==
  IF S = {} THEN << >>
  ELSE LET first == CHOOSE r \in S : \A o \in S \ {r} : CreatedBefore(r, o)
       IN  <<first>> \o InCreationOrder(S \ {first})

\* payouts.getPending: SELECT * FROM payouts WHERE status = 'pending'
\* ORDER BY created_at
GetPending == InCreationOrder({r \in payouts : r.status = "pending"})

\* variant: no payout is ever old enough to be retried
OlderThan5Minutes_Never(id) == FALSE

\* age = Date.now() - created_at; age > 5 * 60 * 1000
OlderThan5Minutes(id) == \E r \in payouts : r.id = id /\ r.old

RT_GetPending(p) ==
  /\ CanStart(p)
  /\ req' = [req EXCEPT ![p] =
               IF GetPending = << >>
               THEN [Respond(p, 0, "retried") EXCEPT !.kind = "retry"]
               ELSE [@ EXCEPT !.kind = "retry", !.pc = "rt_loop",
                              !.pending = GetPending, !.idx = 1]]
  /\ UNCHANGED <<wallets, transactions, tournament, entries, entryRows>>
  /\ UNCHANGED_Cache /\ UNCHANGED_Engine

\* one round of the loop over the rows read by getPending
RT_Loop(p) ==
  /\ req[p].pc = "rt_loop"
  /\ LET i == req[p].idx
         id == req[p].pending[i].id
         last == i >= Len(req[p].pending)
     IN  /\ IF OlderThan5Minutes(id)
            THEN \E ok \in BOOLEAN : ProcessPayout(p, id, ok)
            ELSE UNCHANGED <<payouts, lnPayments>>
         /\ req' = [req EXCEPT ![p] =
                      IF last THEN Respond(p, 0, "retried")
                      ELSE [@ EXCEPT !.idx = i + 1]]
  /\ UNCHANGED <<sessions, wallets, transactions, tournament, entries,
                 entryRows, isProcessing, tomorrowCreated, lnPaid, storeVars>>
  /\ UNCHANGED_Cache

RetryFailedPayouts(p) == RT_GetPending(p) \/ RT_Loop(p)

\* ------------------------------------------------------------ environment
\* time passes: the payout's created_at now lies more than 5 minutes back
AgePayout(id) ==
  /\ \E r \in payouts : r.id = id /\ ~r.old
  /\ payouts' = {IF r.id = id THEN [r EXCEPT !.old = TRUE] ELSE r : r \in payouts}
  /\ UNCHANGED <<sessions, wallets, transactions, tournament, entries,
                 entryRows, isProcessing, tomorrowCreated, lnPaid, lnPayments,
                 storeVars, req>>
  /\ UNCHANGED_Cache

\* the payer settles the invoice of a live intent at the Lightning backend
LnSettle(h) ==
  /\ h \notin lnPaid
  /\ h \in DOMAIN cacheDeposit \cup DOMAIN cacheInvoice
  /\ lnPaid' = lnPaid \cup {h}
  /\ UNCHANGED <<sessions, wallets, transactions, tournament, entries, entryRows, payouts,
                 isProcessing, tomorrowCreated, lnPayments, storeVars, req>>
  /\ UNCHANGED_Cache

\* the 10 minute TTL of an intent (and of its per-user index key) runs out
ExpireIntent(h) ==
  /\ h \in DOMAIN cacheDeposit \cup DOMAIN cacheInvoice
  /\ cacheDeposit' = DropKey(cacheDeposit, h)
  /\ cacheInvoice' = DropKey(cacheInvoice, h)
  /\ cacheDepositUser' =
       [u \in {x \in DOMAIN cacheDepositUser : cacheDepositUser[x] # h} |->
          cacheDepositUser[u]]
  /\ cacheInvoiceUser' =
       [u \in {x \in DOMAIN cacheInvoiceUser : cacheInvoiceUser[x] # h} |->
          cacheInvoiceUser[u]]
  /\ UNCHANGED <<wallets, transactions, tournament, entries, entryRows, cacheWebhook,
                 cacheAttempt, req>>
  /\ UNCHANGED_Engine

\* the TTL of an idempotency marker runs out; it is set after the intent
\* and lives longer, so the intent is gone by then
ExpireMarker(h) ==
  /\ h \in cacheWebhook
  /\ h \notin DOMAIN cacheDeposit \cup DOMAIN cacheInvoice
  /\ cacheWebhook' = cacheWebhook \ {h}
  /\ UNCHANGED <<wallets, transactions, tournament, entries, entryRows, cacheDeposit,
                 cacheInvoice, cacheAttempt, cacheDepositUser, cacheInvoiceUser,
                 req>>
  /\ UNCHANGED_Engine

\* the 1 hour TTL of an attempt handle runs out
ExpireAttempt(a) ==
  /\ a \in DOMAIN cacheAttempt
  /\ cacheAttempt' = DropKey(cacheAttempt, a)
  /\ UNCHANGED <<wallets, transactions, tournament, entries, entryRows,
                 cacheDeposit, cacheInvoice, cacheWebhook, cacheDepositUser,
                 cacheInvoiceUser, req>>
  /\ UNCHANGED_Engine

\* ------------------------------------------------------- initial states
\* Ledger rows of a user who deposited d sats and started k attempts
SeedRows(u, d, k) ==
  (IF d > 0 THEN SetToBag({TxRow(u, "deposit", d, "seed")}) ELSE EmptyBag)
  (+) (IF k > 0 THEN [r \in {TxRow(u, "buy_in", 0 - CostSats, "null")} |-> k]
       ELSE EmptyBag)

RECURSIVE BagSum(_, _)
BagSum(f, S) ==
  IF S = {} THEN EmptyBag
  ELSE LET x == CHOOSE y \in S : TRUE IN f[x] (+) BagSum(f, S \ {x})

RECURSIVE SumOver(_, _)
SumOver(f, S) ==
  IF S = {} THEN 0
  ELSE LET x == CHOOSE y \in S : TRUE IN f[x] + SumOver(f, S \ {x})

InitCommon ==
  /\ payouts = {}
  /\ sessions = {}
  /\ cacheDeposit = << >>
  /\ cacheInvoice = << >>
  /\ cacheWebhook = {}
  /\ cacheAttempt = << >>
  /\ cacheDepositUser = << >>
  /\ cacheInvoiceUser = << >>
  /\ lnPaid = {}
  /\ StoreIdle
  /\ lnPayments = {}
  /\ isProcessing = FALSE
  /\ tomorrowCreated = FALSE
  /\ req = [p \in Procs |-> ReqIdle]

\* Wallets, journal, entries and prize pool after deposits and earlier
\* attempts: every caller holds bal[u] sats and has used att[u] attempts
\* (-1: no entry yet)
InitLedger ==
  \E bal \in [Callers -> {CostSats, 2 * CostSats}],
     att \in [Callers -> {-1, 2}] :
    LET used == [u \in Callers |-> IF att[u] < 0 THEN 0 ELSE att[u]]
    IN  /\ wallets = [u \in Users |-> IF u \in Callers THEN bal[u] ELSE 0]
        /\ transactions =
             BagSum([u \in Callers |->
                       SeedRows(u, bal[u] + used[u] * CostSats, used[u])],
                    Callers)
        /\ entries = [u \in {c \in Callers : att[c] >= 0} |->
                        [NewEntry("null") EXCEPT !.attempts_used = att[u]]]
        /\ tournament = [status |-> "open",
                         prize_pool_sats |-> SumOver(used, Callers) * CostSats,
                         buy_in_sats |-> BuyInSats]

\* Intents in the cache after POST /wallet/deposit by u1 (hash h1) and
\* POST /payments/buy-in by u2 (hash h2)
InitIntents ==
  /\ cacheDeposit = [h \in {"h1"} |-> [userId |-> "u1", amount |-> DepositAmount]]
  /\ cacheDepositUser = [u \in {"u1"} |-> "h1"]
  /\ cacheInvoice = [h \in {"h2"} |-> [userId |-> "u2", amount |-> BuyInSats]]
  /\ cacheInvoiceUser = [u \in {"u2"} |-> "h2"]

\* one row per entry
InitRows == entryRows = [u \in Users |-> IF u \in DOMAIN entries THEN 1 ELSE 0]

InitAttempt == InitCommon /\ InitLedger /\ InitRows

NextAttempt == \E p \in Procs : StartAttempt(p) \/ WalletBuyIn(p)

SpecAttempt == InitAttempt /\ [][NextAttempt]_vars

\* u2 may have got an entry since the buy-in invoice was created, from a
\* start-attempt that stopped at the balance check
InitPay ==
  /\ payouts = {}
  /\ sessions = {}
  /\ cacheWebhook = {}
  /\ cacheAttempt = << >>
  /\ lnPaid = {}
  /\ StoreIdle
  /\ lnPayments = {}
  /\ isProcessing = FALSE
  /\ tomorrowCreated = FALSE
  /\ req = [p \in Procs |-> ReqIdle]
  /\ InitIntents
  /\ wallets = [u \in Users |-> 0]
  /\ transactions = EmptyBag
  /\ tournament = [status |-> "open", prize_pool_sats |-> 0,
                   buy_in_sats |-> BuyInSats]
  /\ \E hasEntry \in BOOLEAN :
       entries = IF hasEntry THEN [u \in {"u2"} |-> NewEntry("null")] ELSE << >>
  /\ InitRows

NextPay ==
  \/ \E p \in Procs : DepositStatus(p) \/ PaymentStatus(p) \/ Webhook(p)
                      \/ ProcessPayment(p)
  \/ \E h \in Hashes : LnSettle(h) \/ ExpireIntent(h) \/ ExpireMarker(h)

SpecPay == InitPay /\ [][NextPay]_vars

\* Webhook deliveries that may fail at any await, and their redeliveries
NextRetry ==
  \/ \E p \in Procs : Webhook(p) \/ ProcessPayment(p) \/ WH_Fail(p)
  \/ \E h \in Hashes : LnSettle(h) \/ ExpireIntent(h) \/ ExpireMarker(h)

SpecRetry == InitPay /\ [][NextRetry]_vars

\* cache.set('attempt:<id>', ...) of two started attempts of u1
InitHandles ==
  [a \in {101, 102} |->
     [userId |-> "u1", entryId |-> <<0, "u1">>, attemptNumber |-> a - 100]]

\* u1 has started attempts 1 and 2 and holds their handles 101 and 102;
\* u2 has an entry from a start-attempt that stopped at the balance check
InitSubmit ==
  /\ payouts = {}
  /\ sessions = {}
  /\ cacheDeposit = << >>
  /\ cacheInvoice = << >>
  /\ cacheWebhook = {}
  /\ cacheAttempt = InitHandles
  /\ cacheDepositUser = << >>
  /\ cacheInvoiceUser = << >>
  /\ lnPaid = {}
  /\ StoreIdle
  /\ lnPayments = {}
  /\ isProcessing = FALSE
  /\ tomorrowCreated = FALSE
  /\ req = [p \in Procs |-> ReqIdle]
  /\ wallets = [u \in Users |-> 0]
  /\ transactions = SeedRows("u1", 2 * CostSats, 2)
  /\ tournament = [status |-> "open", prize_pool_sats |-> 2 * CostSats,
                   buy_in_sats |-> BuyInSats]
  /\ entries = [u \in Callers |->
                  [NewEntry("null") EXCEPT
                     !.attempts_used = IF u = "u1" THEN 2 ELSE 0]]
  /\ InitRows

NextSubmit ==
  \/ \E p \in Procs : Submit(p)
  \/ \E a \in AttemptIds : ExpireAttempt(a)

SpecSubmit == InitSubmit /\ [][NextSubmit]_vars

\* Every path that inserts a tournament_entries row: u1 has used two
\* attempts, u2 has no entry yet, both hold sats for two attempts; u1's
\* deposit invoice h1 and u2's buy-in invoice h2 are pending
InitEntry ==
  /\ payouts = {}
  /\ sessions = {}
  /\ InitIntents
  /\ cacheWebhook = {}
  /\ cacheAttempt = << >>
  /\ lnPaid = {}
  /\ StoreIdle
  /\ lnPayments = {}
  /\ isProcessing = FALSE
  /\ tomorrowCreated = FALSE
  /\ req = [p \in Procs |-> ReqIdle]
  /\ wallets = [u \in Users |-> IF u \in Callers THEN 2 * CostSats ELSE 0]
  /\ transactions = SeedRows("u1", 4 * CostSats, 2)
                      (+) SeedRows("u2", 2 * CostSats, 0)
  /\ tournament = [status |-> "open", prize_pool_sats |-> 2 * CostSats,
                   buy_in_sats |-> BuyInSats]
  /\ entries = [u \in {"u1"} |-> [NewEntry("null") EXCEPT !.attempts_used = 2]]
  /\ InitRows

NextEntry ==
  \/ \E p \in Procs : StartAttempt(p) \/ WalletBuyIn(p) \/ PaymentStatus(p)
                      \/ Webhook(p) \/ ProcessPayment(p)
  \/ \E h \in Hashes : LnSettle(h)

SpecEntry == InitEntry /\ [][NextEntry]_vars

\* Webhook deliveries with arbitrary signature headers
NextSignature ==
  \/ \E p \in Procs :
       \/ WH_AnySignature(p) \/ WH_ProbeInvoice(p) \/ WH_ProbeDeposit(p)
       \/ WH_GetInvoice(p) \/ WH_GetDeposit(p) \/ WH_Del(p) \/ WH_DelUser(p)
       \/ WH_CreditInsert(p) \/ WH_CreditUpsert(p) \/ ProcessPayment(p)
  \/ \E h \in Hashes : LnSettle(h)

SpecSignature == InitPay /\ [][NextSignature]_vars

\* Buy-ins only, from an empty tournament: wallet buy-ins of u1 and u2, u2's
\* buy-in invoice h2 and u1's deposit invoice h1 pending
InitBuyIn ==
  /\ payouts = {}
  /\ sessions = {}
  /\ InitIntents
  /\ cacheWebhook = {}
  /\ cacheAttempt = << >>
  /\ lnPaid = {}
  /\ StoreIdle
  /\ lnPayments = {}
  /\ isProcessing = FALSE
  /\ tomorrowCreated = FALSE
  /\ req = [p \in Procs |-> ReqIdle]
  /\ wallets = [u \in Users |-> IF u \in Callers THEN CostSats ELSE 0]
  /\ transactions = SeedRows("u1", CostSats, 0) (+) SeedRows("u2", CostSats, 0)
  /\ tournament = [status |-> "open", prize_pool_sats |-> 0,
                   buy_in_sats |-> BuyInSats]
  /\ entries = << >>
  /\ InitRows

NextBuyIn ==
  \/ \E p \in Procs : WalletBuyIn(p) \/ PaymentStatus(p) \/ Webhook(p)
                      \/ ProcessPayment(p)
  \/ \E h \in Hashes : LnSettle(h)

SpecBuyIn == InitBuyIn /\ [][NextBuyIn]_vars

\* The three sources of prize-pool additions: attempts, wallet buy-ins and
\* invoice buy-ins (polled), with u2's buy-in invoice h2 pending
InitPool ==
  /\ payouts = {}
  /\ sessions = {}
  /\ cacheWebhook = {}
  /\ cacheAttempt = << >>
  /\ lnPaid = {}
  /\ StoreIdle
  /\ lnPayments = {}
  /\ isProcessing = FALSE
  /\ tomorrowCreated = FALSE
  /\ req = [p \in Procs |-> ReqIdle]
  /\ cacheDeposit = << >>
  /\ cacheDepositUser = << >>
  /\ cacheInvoice = [h \in {"h2"} |-> [userId |-> "u2", amount |-> BuyInSats]]
  /\ cacheInvoiceUser = [u \in {"u2"} |-> "h2"]
  /\ InitLedger
  /\ InitRows

NextPool ==
  \/ \E p \in Procs : StartAttempt(p) \/ WalletBuyIn(p) \/ PaymentStatus(p)
                      \/ ProcessPayment(p)
  \/ \E h \in Hashes : LnSettle(h)

SpecPool == InitPool /\ [][NextPool]_vars

\* The 23:59 tick: a tournament with any set of entrants and any prize pool
\* up to MaxPool
Scores == [u \in Users |-> IF u = "u1" THEN 5 ELSE IF u = "u4" THEN 1 ELSE 3]

InitClose ==
  /\ InitCommon
  /\ wallets = [u \in Users |-> 0]
  /\ transactions = EmptyBag
  /\ \E pool \in 0..MaxPool, entrants \in SUBSET Users :
       /\ entrants = {} => pool = 0
       /\ tournament = [status |-> "open", prize_pool_sats |-> pool,
                        buy_in_sats |-> BuyInSats]
       /\ entries = [u \in entrants |->
                       [NewEntry("null") EXCEPT !.best_score = Scores[u],
                                                !.attempts_used = 1,
                                                !.attempt_score[1] = Scores[u]]]
  /\ InitRows

NextClose == \E p \in Procs : CloseTournament(p)

SpecClose == InitClose /\ [][NextClose]_vars

\* The close tick fires and every step of a started close is eventually taken
SpecCloseLive == SpecClose /\ WF_vars(NextClose)

\* The close tick and its repetitions when database calls may fail
NextCloseFail == \E p \in Procs : CloseTournament(p) \/ CT_Fail(p)

SpecCloseFail == InitClose /\ [][NextCloseFail]_vars

\* The 30 minute ticks after a close (engine invocation 0) whose payments
\* succeeded for some winners and failed for the others
CloseProc == 0

PayoutIds == {<<CloseProc, i>> : i \in 1..3}

InitRetry ==
  /\ sessions = {}
  /\ cacheDeposit = << >>
  /\ cacheInvoice = << >>
  /\ cacheWebhook = {}
  /\ cacheAttempt = << >>
  /\ cacheDepositUser = << >>
  /\ cacheInvoiceUser = << >>
  /\ lnPaid = {}
  /\ StoreIdle
  /\ isProcessing = FALSE
  /\ tomorrowCreated = TRUE
  /\ req = [p \in Procs |-> ReqIdle]
  /\ wallets = [u \in Users |-> 0]
  /\ transactions = EmptyBag
  /\ entries = [u \in {"u1", "u2", "u3"} |->
                  [NewEntry("null") EXCEPT !.best_score = Scores[u],
                                           !.attempts_used = 1,
                                           !.attempt_score[1] = Scores[u]]]
  /\ InitRows
  /\ tournament = [status |-> "completed", prize_pool_sats |-> MaxPool,
                   buy_in_sats |-> BuyInSats]
  /\ \E paid \in SUBSET (1..3), aged \in SUBSET (1..3) :
       /\ payouts =
            {[PayoutRow(CloseProc, <<"u1", "u2", "u3">>[i], i,
                        PayoutAmount(MaxPool, i))
                EXCEPT !.status = IF i \in paid THEN "paid" ELSE "pending",
                       !.old = i \in aged] : i \in 1..3}
       /\ lnPayments = {[payout |-> <<CloseProc, i>>, by |-> CloseProc,
                         ok |-> i \in paid] : i \in 1..3}

NextRetryPayouts ==
  \/ \E p \in Procs : RetryFailedPayouts(p)
  \/ \E id \in PayoutIds : AgePayout(id)

SpecRetryPayouts == InitRetry /\ [][NextRetryPayouts]_vars

\* one round of the retry loop in which payToAddress succeeds and the awaited
\* payouts.markPaid rejects: the catch block of processPayout logs the error
\* and returns false, the row stays pending
RT_LoopMarkFails(p) ==
  /\ req[p].pc = "rt_loop"
  /\ LET i == req[p].idx
         id == req[p].pending[i].id
         last == i >= Len(req[p].pending)
     IN  /\ OlderThan5Minutes(id)
         /\ lnPayments' = lnPayments \cup {[payout |-> id, by |-> p, ok |-> TRUE]}
         /\ req' = [req EXCEPT ![p] =
                      IF last THEN Respond(p, 0, "retried")
                      ELSE [@ EXCEPT !.idx = i + 1]]
  /\ UNCHANGED <<sessions, wallets, transactions, tournament, entries,
                 entryRows, payouts, isProcessing, tomorrowCreated, lnPaid,
                 storeVars>>
  /\ UNCHANGED_Cache

\* The retry ticks when the database may fail under markPaid
NextRetryMark ==
  \/ \E p \in Procs : RetryFailedPayouts(p) \/ RT_LoopMarkFails(p)
  \/ \E id \in PayoutIds : AgePayout(id)

SpecRetryMark == InitRetry /\ [][NextRetryMark]_vars

\* Deposit requests of users without an intent, and the intents' settlement
\* and expiry
InitDeposit ==
  /\ InitCommon
  /\ wallets = [u \in Users |-> 0]
  /\ transactions = EmptyBag
  /\ entries = << >>
  /\ InitRows
  /\ tournament = [status |-> "open", prize_pool_sats |-> 0,
                   buy_in_sats |-> BuyInSats]

NextDeposit ==
  \/ \E p \in Procs : Deposit(p)
  \/ \E h \in Hashes : LnSettle(h) \/ ExpireIntent(h)

SpecDeposit == InitDeposit /\ [][NextDeposit]_vars

\* ------------------------------------------------- csrfProtection, routes
\* A CSRF token is the hex form of CSRF_TOKEN_LENGTH random bytes; a client
\* sends in the header and in the cookie what it likes, or nothing
CSRF_TOKEN_LENGTH == 1

CsrfTokens ==
  {<< >>, <<"a">>, <<"a", "a">>, <<"a", "b">>, <<"z", "a">>, <<"z", "b">>}

\* the state-changing routes taken here, as mount point and path in the router
GameStartAttempt == <<"/api/game", "/start-attempt">>
WalletBuyInPath  == <<"/api/wallet", "/buy-in">>

\* csrfProtection(req, res, next): "next", or the code of the 403 response
CsrfProtection(method, path, tokenFromHeader, tokenFromCookie) ==
  IF method \in {"GET", "HEAD", "OPTIONS"} THEN "next"
  ELSE IF path = "/webhook" THEN "next"
  ELSE IF tokenFromHeader = << >> \/ tokenFromCookie = << >>
       THEN "CSRF_MISSING"
  ELSE IF \/ Len(tokenFromHeader) # CSRF_TOKEN_LENGTH * 2
          \/ Len(tokenFromCookie) # CSRF_TOKEN_LENGTH * 2
       THEN "CSRF_INVALID"
  ELSE IF Len(HexDecode(tokenFromHeader)) # Len(HexDecode(tokenFromCookie))
       THEN "CSRF_INVALID"
  ELSE IF HexDecode(tokenFromHeader) # HexDecode(tokenFromCookie)
       THEN "CSRF_MISMATCH"
  ELSE "next"

\* app.use(mount, ...): the middleware in front of the router of a mount point
Middleware(mount, method, path, tokenFromHeader, tokenFromCookie) ==
  IF mount = "/api/game"
    THEN CsrfProtection(method, path, tokenFromHeader, tokenFromCookie)
    ELSE "next"

\* a POST request arrives and passes the middleware of its mount point, or is
\* answered 403 there
Request(p) ==
  /\ CanStart(p)
  /\ req[p].path = << >>
  /\ \E route \in {GameStartAttempt, WalletBuyInPath},
        tokenFromHeader \in CsrfTokens, tokenFromCookie \in CsrfTokens :
       LET passed == Middleware(route[1], "POST", route[2], tokenFromHeader,
                                tokenFromCookie)
           sent   == [req[p] EXCEPT
                        !.path = route,
                        !.csrfOk = /\ tokenFromHeader # << >>
                                   /\ tokenFromHeader = tokenFromCookie]
       IN  req' = [req EXCEPT ![p] =
                     IF passed = "next" THEN sent
                     ELSE [sent EXCEPT !.pc = "done", !.status = 403,
                                       !.code = passed]]
  /\ UNCHANGED <<wallets, transactions, tournament, entries, entryRows>>
  /\ UNCHANGED_Cache /\ UNCHANGED_Engine

\* app.use('/api/game', gameLimiter, csrfProtection, gameRoutes)
Api_Game(p) ==
  /\ req[p].path = GameStartAttempt
  /\ StartAttempt(p)

\* app.use('/api/wallet', paymentLimiter, walletRoutes)
Api_Wallet(p) ==
  /\ req[p].path = WalletBuyInPath
  /\ WalletBuyIn(p)

NextCsrf == \E p \in Procs : Request(p) \/ Api_Game(p) \/ Api_Wallet(p)

SpecCsrf == InitAttempt /\ [][NextCsrf]_vars

\* ------------------------------------------------------------ cacheStore
\* The cache store on its own: set, get, del and setIfNotExists called by
\* concurrent request handlers, over the in-memory Map or over Redis.
\* In the in-memory branch a call awaits nothing but promises that are
\* already settled, so its continuations run as microtasks of the task that
\* made the call and the whole call is one step. In the Redis branch the call
\* sends one command, which the server executes atomically at a later step.
CacheKeys == {"k1", "k2"}
TtlSeconds == {1, 2}
MaxNow == 3

\* Date.now() > entry.expiresAt
Expired(entry, t) == t > entry.expiresAt

\* the Redis server treats a key whose TTL has run out as missing
RedisExists(key) == key \in DOMAIN redis /\ now < redis[key]

\* the key is set and has neither expired nor been deleted
KeyExists(key) ==
  IF useMemoryStore
    THEN key \in DOMAIN memoryStore /\ now <= memoryStore[key].expiresAt
    ELSE RedisExists(key)

\* has(key) over the Map: the entry is there and has not expired
MemoryHas_Never(map, key, t) == FALSE
MemoryHas(map, key, t) == key \in DOMAIN map /\ ~Expired(map[key], t)

\* get(key) and has(key) over the Map delete the entry they find expired
DeleteIfExpired(map, key, t) ==
  IF key \in DOMAIN map /\ Expired(map[key], t) THEN DropKey(map, key) ELSE map

MemoryEntry(ttlSeconds) == [value |-> "1", expiresAt |-> now + ttlSeconds]

StoreCall(kind, pc, key, ttl) ==
  [ReqIdle EXCEPT !.kind = kind, !.pc = pc, !.key = key, !.ttl = ttl,
                  !.at = now]

UNCHANGED_Program ==
  /\ UNCHANGED <<wallets, transactions, tournament, entries, entryRows,
                 payouts, sessions, lnPaid, lnPayments, isProcessing,
                 tomorrowCreated, lnurlChallenges, authSessions, server,
                 today>>
  /\ UNCHANGED_Cache

\* set(key, value, ttlSeconds)
StoreSet(p) ==
  /\ CanStart(p)
  /\ \E key \in CacheKeys, ttl \in TtlSeconds :
       /\ IF useMemoryStore
            THEN /\ memoryStore' = PutKey(memoryStore, key, MemoryEntry(ttl))
                 /\ UNCHANGED redis
            ELSE /\ redis' = PutKey(redis, key, now + ttl)
                 /\ UNCHANGED memoryStore
       /\ req' = [req EXCEPT ![p] = StoreCall("cache_set", "done", key, ttl)]
  /\ UNCHANGED <<useMemoryStore, now>>
  /\ UNCHANGED_Program

\* get(key)
StoreGet(p) ==
  /\ CanStart(p)
  /\ \E key \in CacheKeys :
       /\ memoryStore' = IF useMemoryStore
                           THEN DeleteIfExpired(memoryStore, key, now)
                           ELSE memoryStore
       /\ req' = [req EXCEPT ![p] =
                    [StoreCall("cache_get", "done", key, 0) EXCEPT
                       !.result = IF KeyExists(key) THEN "value" ELSE "null"]]
  /\ UNCHANGED <<redis, useMemoryStore, now>>
  /\ UNCHANGED_Program

\* del(key): memoryStore.delete(key) over the Map, else the DEL command is sent
StoreDel(p) ==
  /\ CanStart(p)
  /\ \E key \in CacheKeys :
       IF useMemoryStore
         THEN /\ memoryStore' = DropKey(memoryStore, key)
              /\ req' = [req EXCEPT ![p] =
                           [StoreCall("cache_del", "done", key, 0) EXCEPT
                              !.deleted = key \in DOMAIN memoryStore,
                              !.existed = KeyExists(key)]]
         ELSE /\ req' = [req EXCEPT ![p] =
                           StoreCall("cache_del", "del_sent", key, 0)]
              /\ UNCHANGED memoryStore
  /\ UNCHANGED <<redis, useMemoryStore, now>>
  /\ UNCHANGED_Program

\* the server executes DEL: deleted > 0
StoreDel_Redis(p) ==
  /\ req[p].pc = "del_sent"
  /\ redis' = DropKey(redis, req[p].key)
  /\ req' = [req EXCEPT ![p].pc = "done",
                        ![p].deleted = RedisExists(req[p].key),
                        ![p].existed = KeyExists(req[p].key),
                        ![p].at = now]
  /\ UNCHANGED <<memoryStore, useMemoryStore, now>>
  /\ UNCHANGED_Program

\* setIfNotExists(key, ttlSeconds): has then set over the Map, else the
\* SET key 1 EX ttl NX command is sent
StoreSetIfNotExists(p) ==
  /\ CanStart(p)
  /\ \E key \in CacheKeys, ttl \in TtlSeconds :
       IF useMemoryStore
         THEN LET found == MemoryHas(memoryStore, key, now)
                  read  == DeleteIfExpired(memoryStore, key, now)
              IN  /\ memoryStore' = IF found THEN read
                                    ELSE PutKey(read, key, MemoryEntry(ttl))
                  /\ req' = [req EXCEPT ![p] =
                               [StoreCall("cache_nx", "done", key, ttl) EXCEPT
                                  !.isNew = ~found,
                                  !.existed = KeyExists(key)]]
         ELSE /\ req' = [req EXCEPT ![p] =
                           StoreCall("cache_nx", "nx_sent", key, ttl)]
              /\ UNCHANGED memoryStore
  /\ UNCHANGED <<redis, useMemoryStore, now>>
  /\ UNCHANGED_Program

\* the server executes SET NX: result === 'OK'
StoreSetIfNotExists_Redis(p) ==
  /\ req[p].pc = "nx_sent"
  /\ redis' = IF RedisExists(req[p].key) THEN redis
              ELSE PutKey(redis, req[p].key, now + req[p].ttl)
  /\ req' = [req EXCEPT ![p].pc = "done",
                        ![p].isNew = ~RedisExists(req[p].key),
                        ![p].existed = KeyExists(req[p].key),
                        ![p].at = now]
  /\ UNCHANGED <<memoryStore, useMemoryStore, now>>
  /\ UNCHANGED_Program

\* cleanupMemoryStore, run by the cleanup interval of the in-memory fallback
CleanupMemoryStore ==
  /\ useMemoryStore
  /\ \E key \in DOMAIN memoryStore : Expired(memoryStore[key], now)
  /\ memoryStore' = [key \in {k \in DOMAIN memoryStore :
                                ~Expired(memoryStore[k], now)} |->
                       memoryStore[key]]
  /\ UNCHANGED <<redis, useMemoryStore, now, req>>
  /\ UNCHANGED_Program

\* a second passes
Tick ==
  /\ now < MaxNow
  /\ now' = now + 1
  /\ UNCHANGED <<memoryStore, redis, useMemoryStore, req>>
  /\ UNCHANGED_Program

\* initCacheStore has run: Redis is connected or the fallback is in use
InitStore ==
  /\ lnurlChallenges = << >>
  /\ authSessions = {}
  /\ server = ServerListening
  /\ today = 0
  /\ memoryStore = << >>
  /\ redis = << >>
  /\ useMemoryStore \in BOOLEAN
  /\ now = 0
  /\ payouts = {}
  /\ sessions = {}
  /\ cacheDeposit = << >>
  /\ cacheInvoice = << >>
  /\ cacheWebhook = {}
  /\ cacheAttempt = << >>
  /\ cacheDepositUser = << >>
  /\ cacheInvoiceUser = << >>
  /\ lnPaid = {}
  /\ lnPayments = {}
  /\ isProcessing = FALSE
  /\ tomorrowCreated = FALSE
  /\ req = [p \in Procs |-> ReqIdle]
  /\ wallets = [u \in Users |-> 0]
  /\ transactions = EmptyBag
  /\ entries = << >>
  /\ InitRows
  /\ tournament = [status |-> "open", prize_pool_sats |-> 0,
                   buy_in_sats |-> BuyInSats]

\* set, get and del calls while time passes
NextStoreDel ==
  \/ \E p \in Procs : StoreSet(p) \/ StoreGet(p) \/ StoreDel(p) \/ StoreDel_Redis(p)
  \/ CleanupMemoryStore
  \/ Tick

SpecStoreDel == InitStore /\ [][NextStoreDel]_vars

\* set and setIfNotExists calls while time passes; no key is deleted
NextStoreNx ==
  \/ \E p \in Procs : StoreSet(p) \/ StoreSetIfNotExists(p)
                          \/ StoreSetIfNotExists_Redis(p)
  \/ CleanupMemoryStore
  \/ Tick

SpecStoreNx == InitStore /\ [][NextStoreNx]_vars

\* ------------------------------------------------------------ LNURL-auth
\* k1 is 32 random bytes: the challenge of Init has k1 0, the challenge a
\* GET /api/lnurl-auth request in slot p creates has k1 p
K1s == 0..NumProcs
LinkingKeys == {"key1", "key2"}
Whitelist == {"key1"}

\* lnurlChallenges.create(k1, 300), in units of 150 s
ExpiresInSeconds == 2

Challenge(status, linkingKey, expiresAt) ==
  [status |-> status, linking_key |-> linkingKey, expires_at |-> expiresAt]

\* lnurlChallenges.verify: WHERE k1 = $1 AND status = 'pending' AND
\* expires_at > NOW()
VerifyMatches(k1, t) ==
  /\ k1 \in DOMAIN lnurlChallenges
  /\ lnurlChallenges[k1].status = "pending"
  /\ lnurlChallenges[k1].expires_at > t

\* lnurlChallenges.consume: WHERE k1 = $1 AND status = 'verified'
ConsumeMatches_AnyStatus(k1) == k1 \in DOMAIN lnurlChallenges
ConsumeMatches(k1) ==
  /\ k1 \in DOMAIN lnurlChallenges
  /\ lnurlChallenges[k1].status = "verified"

UNCHANGED_Lnurl ==
  /\ UNCHANGED <<wallets, transactions, tournament, entries, entryRows,
                 payouts, sessions, lnPaid, lnPayments, isProcessing,
                 tomorrowCreated, memoryStore, redis, useMemoryStore, now,
                 server, today>>
  /\ UNCHANGED_Cache

\* GET /api/lnurl-auth: a new challenge
LN_Create(p) ==
  /\ CanStart(p)
  /\ lnurlChallenges' =
       PutKey(lnurlChallenges, p,
              Challenge("pending", "null", now + ExpiresInSeconds))
  /\ req' = [req EXCEPT ![p] =
               [Respond(p, 200, "CREATED") EXCEPT !.kind = "lnurl", !.k1 = p]]
  /\ UNCHANGED authSessions
  /\ UNCHANGED_Lnurl

\* GET /callback: lnurlChallenges.get, the status and expiry checks and
\* verifySignature
CB_Get(p) ==
  /\ CanStart(p)
  /\ \E k1 \in K1s, key \in LinkingKeys, validSig \in BOOLEAN :
       LET sent == [req[p] EXCEPT !.kind = "callback", !.k1 = k1,
                                  !.linkingKey = key, !.validSig = validSig]
           reply(reason) == [sent EXCEPT !.pc = "done", !.status = 200,
                                         !.code = reason]
       IN  req' = [req EXCEPT ![p] =
                     IF k1 \notin DOMAIN lnurlChallenges
                       THEN reply("NOT_FOUND")
                     ELSE IF lnurlChallenges[k1].status # "pending"
                       THEN reply("ALREADY_USED")
                     ELSE IF now > lnurlChallenges[k1].expires_at
                       THEN reply("EXPIRED")
                     ELSE IF ~validSig
                       THEN reply("INVALID_SIGNATURE")
                     ELSE [sent EXCEPT !.pc = "cb_whitelist"]]
  /\ UNCHANGED <<lnurlChallenges, authSessions>>
  /\ UNCHANGED_Lnurl

\* GET /callback: whitelist.check(key)
CB_Whitelist(p) ==
  /\ req[p].pc = "cb_whitelist"
  /\ req' = [req EXCEPT ![p] =
               IF req[p].linkingKey \in Whitelist
                 THEN [@ EXCEPT !.pc = "cb_verify"]
                 ELSE Respond(p, 200, "NOT_WHITELISTED")]
  /\ UNCHANGED <<lnurlChallenges, authSessions>>
  /\ UNCHANGED_Lnurl

\* GET /callback: lnurlChallenges.verify(k1, key), then {status: 'OK'}
CB_Verify(p) ==
  /\ req[p].pc = "cb_verify"
  /\ lnurlChallenges' =
       IF VerifyMatches(req[p].k1, now)
         THEN [lnurlChallenges EXCEPT
                 ![req[p].k1].status = "verified",
                 ![req[p].k1].linking_key = req[p].linkingKey]
         ELSE lnurlChallenges
  /\ req' = [req EXCEPT ![p] = Respond(p, 200, "OK")]
  /\ UNCHANGED authSessions
  /\ UNCHANGED_Lnurl

Callback(p) == CB_Get(p) \/ CB_Whitelist(p) \/ CB_Verify(p)

\* POST /complete: lnurlChallenges.consume(k1)
CP_Consume(p) ==
  /\ CanStart(p)
  /\ \E k1 \in K1s :
       IF ConsumeMatches(k1)
         THEN /\ lnurlChallenges' =
                   [lnurlChallenges EXCEPT ![k1].status = "consumed"]
              /\ req' = [req EXCEPT ![p] =
                           [@ EXCEPT !.kind = "complete", !.k1 = k1,
                                     !.linkingKey = lnurlChallenges[k1].linking_key,
                                     !.pc = "cp_user"]]
         ELSE /\ req' = [req EXCEPT ![p] =
                           [Respond(p, 400, "NOT_VERIFIED") EXCEPT
                              !.kind = "complete", !.k1 = k1]]
              /\ UNCHANGED lnurlChallenges
  /\ UNCHANGED authSessions
  /\ UNCHANGED_Lnurl

\* POST /complete: the user is found or created, or that fails
CP_User(p) ==
  /\ req[p].pc = "cp_user"
  /\ \E ok \in BOOLEAN :
       req' = [req EXCEPT ![p] =
                 IF ok THEN [@ EXCEPT !.pc = "cp_session"]
                 ELSE Respond(p, 500, "ACCOUNT_FAILED")]
  /\ UNCHANGED <<lnurlChallenges, authSessions>>
  /\ UNCHANGED_Lnurl

\* POST /complete: sessionStore.createSession(user.id), or that fails
CP_CreateSession(p) ==
  /\ req[p].pc = "cp_session"
  /\ \E ok \in BOOLEAN :
       IF ok
         THEN /\ authSessions' = authSessions \cup
                   {[k1 |-> req[p].k1, linking_key |-> req[p].linkingKey,
                     by |-> p]}
              /\ req' = [req EXCEPT ![p] = Respond(p, 200, "SESSION")]
         ELSE /\ req' = [req EXCEPT ![p] = Respond(p, 500, "SESSION_FAILED")]
              /\ UNCHANGED authSessions
  /\ UNCHANGED lnurlChallenges
  /\ UNCHANGED_Lnurl

Complete(p) == CP_Consume(p) \/ CP_User(p) \/ CP_CreateSession(p)

\* lnurlChallenges.cleanup: DELETE ... WHERE expires_at < NOW()
LN_Cleanup ==
  /\ \E k1 \in DOMAIN lnurlChallenges : lnurlChallenges[k1].expires_at < now
  /\ lnurlChallenges' =
       [k1 \in {k \in DOMAIN lnurlChallenges :
                  ~(lnurlChallenges[k].expires_at < now)} |->
          lnurlChallenges[k1]]
  /\ UNCHANGED <<authSessions, req>>
  /\ UNCHANGED_Lnurl

\* one challenge exists, created at time 0: still pending, or verified by a
\* whitelisted wallet
InitLnurl ==
  /\ \E key \in Whitelist :
       lnurlChallenges \in
         {[k1 \in {0} |-> Challenge("pending", "null", ExpiresInSeconds)],
          [k1 \in {0} |-> Challenge("verified", key, ExpiresInSeconds)]}
  /\ authSessions = {}
  /\ server = ServerListening
  /\ today = 0
  /\ memoryStore = << >>
  /\ redis = << >>
  /\ useMemoryStore = TRUE
  /\ now = 0
  /\ payouts = {}
  /\ sessions = {}
  /\ cacheDeposit = << >>
  /\ cacheInvoice = << >>
  /\ cacheWebhook = {}
  /\ cacheAttempt = << >>
  /\ cacheDepositUser = << >>
  /\ cacheInvoiceUser = << >>
  /\ lnPaid = {}
  /\ lnPayments = {}
  /\ isProcessing = FALSE
  /\ tomorrowCreated = FALSE
  /\ req = [p \in Procs |-> ReqIdle]
  /\ wallets = [u \in Users |-> 0]
  /\ transactions = EmptyBag
  /\ entries = << >>
  /\ InitRows
  /\ tournament = [status |-> "open", prize_pool_sats |-> 0,
                   buy_in_sats |-> BuyInSats]

NextLnurl ==
  \/ \E p \in Procs : LN_Create(p) \/ Callback(p) \/ Complete(p)
  \/ LN_Cleanup
  \/ Tick

SpecLnurl == InitLnurl /\ [][NextLnurl]_vars

\* ---------------------------------------------------------- sessionStore
\* authSessions is the session store: a record stands for a token and the
\* session data stored under it. The store runs over Redis exactly when the
\* cache store does (both are initialised from REDIS_URL).
SessionOf(p) ==
  [k1 |-> req[p].k1, linking_key |-> req[p].linkingKey, by |-> req[p].idx]

\* sessions minted before the run begins, one per wallet
SeedSessions == {[k1 |-> -1, linking_key |-> key, by |-> 0] : key \in LinkingKeys}

\* getSession(token): over the Map one synchronous lookup that extends the
\* entry in place; over Redis the GET, with the SETEX still to come on a hit
GS_Get(p) ==
  /\ CanStart(p)
  /\ \E s \in SeedSessions :
       req' = [req EXCEPT ![p] =
                 [@ EXCEPT !.kind = "get_session", !.k1 = s.k1,
                           !.linkingKey = s.linking_key, !.idx = s.by,
                           !.pc = IF s \in authSessions /\ ~useMemoryStore
                                    THEN "gs_setex" ELSE "done",
                           !.result = IF s \in authSessions THEN "session"
                                      ELSE "null"]]
  /\ UNCHANGED <<lnurlChallenges, authSessions>>
  /\ UNCHANGED_Lnurl

\* getSession over Redis: setex(key, SESSION_TTL_SECONDS, session)
GS_Setex(p) ==
  /\ req[p].pc = "gs_setex"
  /\ authSessions' = authSessions \cup {SessionOf(p)}
  /\ req' = [req EXCEPT ![p].pc = "done"]
  /\ UNCHANGED lnurlChallenges
  /\ UNCHANGED_Lnurl

GetSession(p) == GS_Get(p) \/ GS_Setex(p)

\* POST /logout: destroySession(token)
DestroySession(p) ==
  /\ CanStart(p)
  /\ \E s \in SeedSessions :
       /\ authSessions' = authSessions \ {s}
       /\ req' = [req EXCEPT ![p] =
                    [Respond(p, 200, "LOGGED_OUT") EXCEPT
                       !.kind = "destroy", !.destroyed = {s}]]
  /\ UNCHANGED lnurlChallenges
  /\ UNCHANGED_Lnurl

\* DELETE /api/whitelist/:linkingKey: whitelist.remove, then
\* destroyAllUserSessions: over the Map one synchronous loop, over Redis the
\* SCAN, whose keys are then visited one by one
WD_Remove(p) ==
  /\ CanStart(p)
  /\ \E key \in LinkingKeys :
       LET mine == {s \in authSessions : s.linking_key = key}
           sent == [req[p] EXCEPT !.kind = "whitelist_delete",
                                  !.linkingKey = key]
       IN  IF useMemoryStore
             THEN /\ authSessions' = authSessions \ mine
                  /\ req' = [req EXCEPT ![p] =
                               [sent EXCEPT !.pc = "done", !.status = 200,
                                            !.code = "REMOVED",
                                            !.destroyed = mine]]
             ELSE /\ req' = [req EXCEPT ![p] =
                               [sent EXCEPT !.pc = "wd_key",
                                            !.keys = authSessions]]
                  /\ UNCHANGED authSessions
  /\ UNCHANGED lnurlChallenges
  /\ UNCHANGED_Lnurl

\* destroyAllUserSessions over Redis: GET of one scanned key, and DEL when the
\* session is the user's; after the last key the request is answered
WD_Key(p) ==
  /\ req[p].pc = "wd_key"
  /\ IF req[p].keys = {}
       THEN /\ req' = [req EXCEPT ![p] = Respond(p, 200, "REMOVED")]
            /\ UNCHANGED authSessions
       ELSE \E s \in req[p].keys :
              LET hit == s \in authSessions /\ s.linking_key = req[p].linkingKey
              IN  /\ authSessions' = IF hit THEN authSessions \ {s}
                                     ELSE authSessions
                  /\ req' = [req EXCEPT
                               ![p].keys = @ \ {s},
                               ![p].destroyed = IF hit THEN @ \cup {s} ELSE @]
  /\ UNCHANGED lnurlChallenges
  /\ UNCHANGED_Lnurl

WhitelistDelete(p) == WD_Remove(p) \/ WD_Key(p)

\* every wallet holds a session and a challenge verified by a whitelisted
\* wallet waits for its complete call
InitSession ==
  /\ lnurlChallenges =
       [k1 \in {0} |-> Challenge("verified", "key1", ExpiresInSeconds)]
  /\ authSessions = SeedSessions
  /\ server = ServerListening
  /\ today = 0
  /\ memoryStore = << >>
  /\ redis = << >>
  /\ useMemoryStore \in BOOLEAN
  /\ now = 0
  /\ payouts = {}
  /\ sessions = {}
  /\ cacheDeposit = << >>
  /\ cacheInvoice = << >>
  /\ cacheWebhook = {}
  /\ cacheAttempt = << >>
  /\ cacheDepositUser = << >>
  /\ cacheInvoiceUser = << >>
  /\ lnPaid = {}
  /\ lnPayments = {}
  /\ isProcessing = FALSE
  /\ tomorrowCreated = FALSE
  /\ req = [p \in Procs |-> ReqIdle]
  /\ wallets = [u \in Users |-> 0]
  /\ transactions = EmptyBag
  /\ entries = << >>
  /\ InitRows
  /\ tournament = [status |-> "open", prize_pool_sats |-> 0,
                   buy_in_sats |-> BuyInSats]

NextSession ==
  \E p \in Procs : GetSession(p) \/ DestroySession(p) \/ WhitelistDelete(p)
                     \/ Complete(p)

SpecSession == InitSession /\ [][NextSession]_vars

\* The end-of-day close while start-attempt requests are served
NextCloseAttempt == \E p \in Procs : CloseTournament(p) \/ StartAttempt(p)

SpecCloseAttempt == InitAttempt /\ [][NextCloseAttempt]_vars

\* Users who are broke or hold the cost of one attempt, without an Entry or
\* with two attempts paid for, who start attempts and submit scores
InitUnpaid ==
  /\ InitCommon
  /\ \E bal \in [Callers -> {0, CostSats}], att \in [Callers -> {-1, 2}] :
       LET used == [u \in Callers |-> IF att[u] < 0 THEN 0 ELSE att[u]]
       IN  /\ wallets = [u \in Users |-> IF u \in Callers THEN bal[u] ELSE 0]
           /\ transactions =
                BagSum([u \in Callers |->
                          SeedRows(u, bal[u] + used[u] * CostSats, used[u])],
                       Callers)
           /\ entries = [u \in {c \in Callers : att[c] >= 0} |->
                           [NewEntry("null") EXCEPT !.attempts_used = att[u]]]
           /\ tournament = [status |-> "open",
                            prize_pool_sats |-> SumOver(used, Callers) * CostSats,
                            buy_in_sats |-> BuyInSats]
  /\ InitRows

NextUnpaid == \E p \in Procs : StartAttempt(p) \/ Submit(p)

SpecUnpaid == InitUnpaid /\ [][NextUnpaid]_vars

\* Midnight UTC passes while no request is being served: findCurrent now
\* returns the next day's tournament, which has no Entry and an empty pool
MaxDay == 1

Rollover ==
  /\ today < MaxDay
  /\ \A p \in Procs : req[p].pc \in {"idle", "done"}
  /\ today' = today + 1
  /\ tournament' = [status |-> "open", prize_pool_sats |-> 0,
                    buy_in_sats |-> BuyInSats]
  /\ entries' = << >>
  /\ entryRows' = [u \in Users |-> 0]
  /\ UNCHANGED <<wallets, transactions, payouts, sessions, lnPaid, lnPayments,
                 isProcessing, tomorrowCreated, memoryStore, redis,
                 useMemoryStore, now, lnurlChallenges, authSessions, server,
                 req>>
  /\ UNCHANGED_Cache

\* User u1 holds handles 101 and 102 of the two attempts paid for today
InitRollover ==
  /\ payouts = {}
  /\ sessions = {}
  /\ cacheDeposit = << >>
  /\ cacheInvoice = << >>
  /\ cacheWebhook = {}
  /\ cacheAttempt = InitHandles
  /\ cacheDepositUser = << >>
  /\ cacheInvoiceUser = << >>
  /\ lnPaid = {}
  /\ StoreIdle
  /\ lnPayments = {}
  /\ isProcessing = FALSE
  /\ tomorrowCreated = TRUE
  /\ req = [p \in Procs |-> ReqIdle]
  /\ \E bal \in [Callers -> {0, CostSats}] :
       /\ wallets = [u \in Users |-> IF u \in Callers THEN bal[u] ELSE 0]
       /\ transactions =
            SeedRows("u1", bal["u1"] + 2 * CostSats, 2)
              (+) SeedRows("u2", bal["u2"], 0)
  /\ entries = [u \in {"u1"} |-> [NewEntry("null") EXCEPT !.attempts_used = 2]]
  /\ tournament = [status |-> "open", prize_pool_sats |-> 2 * CostSats,
                   buy_in_sats |-> BuyInSats]
  /\ InitRows

NextRollover ==
  \/ \E p \in Procs : StartAttempt(p) \/ Submit(p)
  \/ Rollover

SpecRollover == InitRollover /\ [][NextRollover]_vars

\* ------------------------------------------------- start, gracefulShutdown
\* securityErrors of start(): what production requires and the process lacks
SecurityErrors_None(srv) == {}
SecurityErrors(srv) ==
  IF ~srv.production THEN {}
  ELSE {e \in {"LNBITS_WEBHOOK_SECRET", "REDIS_URL", "LNBITS_API_KEY"} :
          \/ e = "LNBITS_WEBHOOK_SECRET" /\ ~srv.webhookSecret
          \/ e = "REDIS_URL" /\ ~srv.redisUrl
          \/ e = "LNBITS_API_KEY" /\ ~srv.apiKey}

UNCHANGED_Server ==
  /\ UNCHANGED <<wallets, transactions, tournament, entries, entryRows,
                 payouts, sessions, lnPaid, lnPayments, isProcessing,
                 tomorrowCreated, memoryStore, redis, useMemoryStore, now,
                 lnurlChallenges, authSessions, today, req>>
  /\ UNCHANGED_Cache

\* start(): initSessionStore and initCacheStore; without Redis each store
\* starts its cleanup interval
ST_InitStores ==
  /\ server.pc = "start" /\ ~server.exited
  /\ server' = [server EXCEPT !.pc = "stores",
                              !.cacheCleanup = ~server.redisUrl,
                              !.sessionCleanup = ~server.redisUrl]
  /\ UNCHANGED_Server

\* start(): initDatabase and ensureTodaysTournament
ST_InitDatabase ==
  /\ server.pc = "stores" /\ ~server.exited
  /\ server' = [server EXCEPT !.pc = "ready"]
  /\ UNCHANGED_Server

\* start(), from the first cron.schedule to the end without an await: the
\* three tasks are scheduled, then process.exit(1) on a security error, else
\* app.listen
ST_Schedule ==
  /\ server.pc = "ready" /\ ~server.exited
  /\ server' = IF SecurityErrors(server) # {}
                 THEN [server EXCEPT !.cron = TRUE, !.pc = "failed",
                                     !.exited = TRUE]
                 ELSE [server EXCEPT !.cron = TRUE, !.pc = "listening",
                                     !.listening = TRUE]
  /\ UNCHANGED_Server

\* a scheduled task fires: daily creation, close, or payout retry
CronTick ==
  /\ server.cron /\ ~server.exited
  /\ ~server.tickRan \/ (server.sd # "none" /\ ~server.lateWork)
  /\ server' = [server EXCEPT !.tickRan = TRUE,
                              !.lateWork = @ \/ server.sd # "none"]
  /\ UNCHANGED_Server

\* a cleanup interval fires: the LNURL challenge sweep set at import, or the
\* sweep of a store whose interval is running
Sweep ==
  /\ ~server.exited
  /\ ~server.sweepRan \/ (server.sd # "none" /\ ~server.lateWork)
  /\ \E interval \in {"challenges", "cache", "session"} :
       /\ interval = "cache" => server.cacheCleanup
       /\ interval = "session" => server.sessionCleanup
       /\ server' = [server EXCEPT !.sweepRan = TRUE,
                                   !.lateWork = @ \/ server.sd # "none"]
  /\ UNCHANGED_Server

\* the listening server hands a request to the router
AcceptRequest ==
  /\ server.listening /\ ~server.exited /\ ~server.requestAccepted
  /\ server' = [server EXCEPT !.requestAccepted = TRUE]
  /\ UNCHANGED_Server

\* SIGTERM or SIGINT: gracefulShutdown begins
SD_Signal ==
  /\ ~server.exited /\ server.sd = "none"
  /\ server' = [server EXCEPT !.sd = "cache"]
  /\ UNCHANGED_Server

\* gracefulShutdown: closeCacheStore (stopCleanup, redis.quit)
SD_CloseCache ==
  /\ server.sd = "cache" /\ ~server.exited
  /\ server' = [server EXCEPT !.sd = "session", !.cacheCleanup = FALSE]
  /\ UNCHANGED_Server

\* gracefulShutdown: closeSessionStore (stopCleanup, redis.quit)
SD_CloseSession ==
  /\ server.sd = "session" /\ ~server.exited
  /\ server' = [server EXCEPT !.sd = "db", !.sessionCleanup = FALSE]
  /\ UNCHANGED_Server

\* gracefulShutdown: closeDatabase, then process.exit(0)
SD_CloseDatabase ==
  /\ server.sd = "db" /\ ~server.exited
  /\ server' = [server EXCEPT !.sd = "exit", !.exited = TRUE]
  /\ UNCHANGED_Server

\* the process is launched with some configuration
InitServer ==
  /\ \E production, webhookSecret, redisUrl, apiKey \in BOOLEAN :
       server = [ServerListening EXCEPT
                   !.production = production, !.webhookSecret = webhookSecret,
                   !.redisUrl = redisUrl, !.apiKey = apiKey,
                   !.pc = "start", !.cron = FALSE, !.listening = FALSE,
                   !.cacheCleanup = FALSE, !.sessionCleanup = FALSE]
  /\ lnurlChallenges = << >>
  /\ authSessions = {}
  /\ today = 0
  /\ memoryStore = << >>
  /\ redis = << >>
  /\ useMemoryStore = TRUE
  /\ now = 0
  /\ payouts = {}
  /\ sessions = {}
  /\ cacheDeposit = << >>
  /\ cacheInvoice = << >>
  /\ cacheWebhook = {}
  /\ cacheAttempt = << >>
  /\ cacheDepositUser = << >>
  /\ cacheInvoiceUser = << >>
  /\ lnPaid = {}
  /\ lnPayments = {}
  /\ isProcessing = FALSE
  /\ tomorrowCreated = FALSE
  /\ req = [p \in Procs |-> ReqIdle]
  /\ wallets = [u \in Users |-> 0]
  /\ transactions = EmptyBag
  /\ entries = << >>
  /\ InitRows
  /\ tournament = [status |-> "open", prize_pool_sats |-> 0,
                   buy_in_sats |-> BuyInSats]

NextServer ==
  \/ ST_InitStores \/ ST_InitDatabase \/ ST_Schedule
  \/ CronTick \/ Sweep \/ AcceptRequest
  \/ SD_Signal \/ SD_CloseCache \/ SD_CloseSession \/ SD_CloseDatabase

SpecServer == InitServer /\ [][NextServer]_vars

\* All request handlers together, from ledgers and intents already in place
InitAll ==
  /\ payouts = {}
  /\ sessions = {}
  /\ cacheWebhook = {}
  /\ cacheAttempt = << >>
  /\ lnPaid = {}
  /\ StoreIdle
  /\ lnPayments = {}
  /\ isProcessing = FALSE
  /\ tomorrowCreated = FALSE
  /\ req = [p \in Procs |-> ReqIdle]
  /\ InitIntents
  /\ InitLedger
  /\ InitRows

Next == NextAttempt \/ NextPay

Spec == InitAll /\ [][Next]_vars

\* ================================================================ claims
\* a handler stands between the journal INSERT and the balance UPDATE of one
\* wallets.credit or wallets.debit call
InsideWalletCall(p) ==
  req[p].pc \in {"sa_debit_update", "sa_refund_upsert", "bi_debit_update",
                 "bi_refund_upsert", "ds_credit_upsert", "wh_credit_upsert"}

\* C1: whenever no wallets.credit or wallets.debit call is half way, the
\* signed sum of every user's Transaction rows equals that user's balance.
C1_LedgerMatchesBalance ==
  (\A p \in Procs : ~InsideWalletCall(p)) =>
     \A u \in Users : LedgerSum(u) = wallets[u]

\* C3: every Entry has 0 <= attempts_used <= max_attempts = 3, in every state
\* of every interleaving of start-attempt and wallet buy-in requests.
C3_AttemptsWithinCap ==
  \A u \in DOMAIN entries :
    /\ entries[u].max_attempts = MAX_ATTEMPTS_PER_TOURNAMENT
    /\ entries[u].attempts_used >= 0
    /\ entries[u].attempts_used <= entries[u].max_attempts

\* the cap was contested: an increment hit the cap and returned no row
C3_Witness ==
  \E p \in Procs :
    /\ req[p].kind = "start_attempt"
    /\ req[p].result = "null"
    /\ entries[req[p].userId].attempts_used = MAX_ATTEMPTS_PER_TOURNAMENT

\* start-attempt requests of user u that read attempts_used = 2
LastAttemptRacers(u) ==
  {p \in Procs : /\ req[p].kind = "start_attempt"
                 /\ req[p].userId = u
                 /\ req[p].pc \notin {"idle", "sa_entry"}
                 /\ req[p].attemptsUsed = 2}

\* C4: when exactly two start-attempt requests of one user both read
\* attempts_used = 2 and both had their debit applied, then once both have
\* responded exactly one of them has succeeded, with attempt number 3, the
\* other got no row from the increment, and attempts_used is 3.
C4_OneOfTwoStartsWins ==
  \A u \in Callers :
    LET S == LastAttemptRacers(u)
    IN  (/\ Cardinality(S) = 2
         /\ \A p \in S : req[p].pc = "done" /\ req[p].debited)
        => /\ entries[u].attempts_used = 3
           /\ \E p \in S :
                /\ req[p].status = 200
                /\ req[p].attemptNumber = 3
                /\ \A q \in S \ {p} :
                     req[q].status # 200 /\ req[q].result = "null"

C4_Witness ==
  \E p, q \in Procs :
    /\ p # q
    /\ LastAttemptRacers(req[p].userId) = {p, q}
    /\ req[p].pc = "done" /\ req[q].pc = "done"
    /\ req[p].debited /\ req[q].debited
    /\ req[p].status = 200 /\ req[p].attemptNumber = 3
    /\ req[q].status = 500

\* one step of start-attempt handler p after its debit was applied and
\* incrementAttempt returned no row
C5_Step(p) ==
  LET u == req[p].userId
      refundRow == TxRow(u, "refund", CostSats, "null")
  IN  /\ (/\ req[p].pc = "sa_increment" /\ req[p].debited
          /\ req'[p].result = "null")
         => /\ UNCHANGED <<entries, tournament, wallets, transactions>>
            /\ req'[p].pc = "sa_refund_insert"
      /\ (/\ req[p].kind = "start_attempt" /\ req[p].debited
          /\ req[p].result = "null" /\ req'[p] # req[p])
         => /\ UNCHANGED <<entries, tournament>>
            /\ req[p].pc \in {"sa_refund_insert", "sa_refund_upsert"}
            /\ req[p].pc = "sa_refund_insert" =>
                 /\ transactions' = transactions (+) SetToBag({refundRow})
                 /\ wallets' = wallets
            /\ req[p].pc = "sa_refund_upsert" =>
                 /\ wallets' = [wallets EXCEPT ![u] = @ + CostSats]
                 /\ transactions' = transactions
                 /\ req'[p].pc = "done"
                 /\ req'[p].status = 500
                 /\ req'[p].code = "FAILED_TO_START"

C6_BalanceNonNegative ==
  \A u \in Users : wallets[u] >= 0

\* the guarded UPDATE of a debit matched no row: the balance was too low
C6_Witness ==
  \E p \in Procs :
    /\ req[p].pc \in {"sa_increment", "bi_create"}
    /\ ~req[p].debited
    /\ wallets[req[p].userId] < req[p].amount

\* sats that left the wallets: deposits journalled minus balances held
DebitedTotal ==
  SumOver([u \in Users |->
             SumRows(transactions,
                     {r \in BagToSet(transactions) :
                        r.user_id = u /\ r.type = "deposit"}) - wallets[u]],
          Users)

\* sats of the invoice buy-ins recorded as entries
InvoiceBuyInTotal ==
  tournament.buy_in_sats
    * Cardinality({u \in DOMAIN entries : entries[u].payment_hash \in Hashes})

\* C7: once every request has responded, the prize pool equals the sum of
\* the processed invoice buy-ins and of the sats debited from the wallets
\* for wallet buy-ins and attempts.
C7_PrizePoolIsSumOfDebits ==
  (\A p \in Procs : req[p].pc \in {"idle", "done"}) =>
     tournament.prize_pool_sats = InvoiceBuyInTotal + DebitedTotal

RECURSIVE SumPayouts(_)
SumPayouts(rows) ==
  IF rows = {} THEN 0
  ELSE LET r == CHOOSE x \in rows : TRUE
       IN  r.amount_sats + SumPayouts(rows \ {r})

\* C8 as stated: the payouts of a closed tournament sum to at most
\* floor(prize_pool_sats * 0.98).
C8_PayoutsWithinFloor98 ==
  tournament.status = "completed" =>
    SumPayouts(payouts) <= (tournament.prize_pool_sats * 98) \div 100

\* deposit Transaction rows that carry payment hash h
DepositCredits(h) ==
  CountRows(transactions,
            {r \in BagToSet(transactions) :
               r.type = "deposit" /\ r.reference = h})

\* entries created from the buy-in invoice with payment hash h
EntryCreations(h) ==
  Cardinality({u \in DOMAIN entries : entries[u].payment_hash = h})

\* handler p has carried the processing of its payment hash to the end
Processed(p) ==
  /\ req[p].pc = "done"
  /\ req[p].deleted \/ req[p].result \in {"success", "existing"}

\* C2 as stated: a payment hash is never recorded twice, and once a handler
\* has processed it there is exactly one deposit row with its wallet credit,
\* or exactly one Entry with its prize-pool addition.
C2_CreditedExactlyOnce ==
  \A h \in Hashes :
    /\ DepositCredits(h) + EntryCreations(h) <= 1
    /\ (\E p \in Procs : req[p].hash = h /\ Processed(p))
         => DepositCredits(h) + EntryCreations(h) = 1

\* C2 amended: a payment hash is never recorded twice; the handler that
\* claimed a deposit intent leaves exactly one deposit row and one wallet
\* credit of the intent's amount; a buy-in leaves exactly one Entry and one
\* prize-pool addition, unless the user already had an Entry, and then the
\* intent is dropped with no Entry and no prize-pool addition for the hash.
C2_CreditedOnceUnlessEntered ==
  /\ tournament.prize_pool_sats = InvoiceBuyInTotal
  /\ \A h \in Hashes :
       /\ DepositCredits(h) + EntryCreations(h) <= 1
       /\ \A p \in Procs :
            (req[p].hash = h /\ Processed(p)) =>
               /\ req[p].deleted =>
                    /\ DepositCredits(h) = 1
                    /\ wallets[req[p].info.userId] = req[p].info.amount
               /\ req[p].result = "success" => EntryCreations(h) = 1
               /\ req[p].result = "existing" =>
                    /\ req[p].info.userId \in DOMAIN entries
                    /\ h \notin DOMAIN cacheInvoice

\* a webhook delivery and a status poll raced for one deposit: one of them
\* claimed and credited it, the other found it already processed
C2_Witness ==
  \E p, q \in Procs :
    /\ req[p].kind = "webhook" /\ req[q].kind = "deposit_status"
    /\ req[p].hash = req[q].hash
    /\ req[p].pc = "done" /\ req[q].pc = "done"
    /\ req[p].deleted # req[q].deleted
    /\ "alreadyProcessed" \in {req[p].code, req[q].code}
    /\ DepositCredits(req[p].hash) = 1

\* the persistent state named by the claims on replays
Persistent == <<wallets, transactions, entries, tournament>>

\* handler p made the credit or entry creation of its payment hash its own
Terminal(p) == req[p].deleted \/ req[p].result = "success"

\* C9: of all deliveries of one webhook payload at most one changes the
\* persistent state, so N deliveries leave what one delivery leaves.
C9_WebhookReplayIsIdempotent ==
  /\ [](\A h \in Hashes :
          Cardinality({p \in Procs : /\ req[p].kind = "webhook"
                                     /\ req[p].hash = h
                                     /\ Terminal(p)}) <= 1)
  /\ [][\A p \in Procs :
          (/\ req'[p].kind = "webhook"
           /\ req'[p] # req[p]
           /\ Persistent' # Persistent)
          => (Terminal(p))']_vars

\* the same payload was delivered twice: one delivery recorded the payment
C9_Witness ==
  \E p, q \in Procs :
    /\ p # q
    /\ req[p].kind = "webhook" /\ req[q].kind = "webhook"
    /\ req[p].hash = req[q].hash
    /\ req[p].pc = "done" /\ req[q].pc = "done"
    /\ Terminal(p) /\ ~Terminal(q)

IsPoll(p) == req[p].kind \in {"deposit_status", "payment_status"}

\* C10: polls made before the payment is confirmed change no persistent
\* state, and of all polls of one payment hash at most one records it.
C10_PollsRecordAtMostOnce ==
  /\ [](\A h \in Hashes :
          Cardinality({p \in Procs : IsPoll(p) /\ req[p].hash = h
                                     /\ Terminal(p)}) <= 1)
  /\ [][\A p \in Procs :
          (/\ IsPoll(p)'
           /\ req'[p] # req[p]
           /\ req'[p].hash \notin lnPaid)
          => /\ Persistent' = Persistent
             /\ ~(Terminal(p))']_vars

\* one poll came before the confirmation, one after it and recorded it
C10_Witness ==
  \E p, q \in Procs :
    /\ p # q
    /\ IsPoll(p) /\ IsPoll(q)
    /\ req[p].hash = req[q].hash
    /\ req[p].code = "not_paid"
    /\ req[q].pc = "done" /\ Terminal(q)

Recorded(p) ==
  IF req[p].deleted
  THEN /\ DepositCredits(req[p].hash) = 1
       /\ wallets[req[p].info.userId] >= req[p].info.amount
  ELSE /\ req[p].info.userId \in DOMAIN entries
       /\ req[p].hash \notin DOMAIN cacheInvoice

C12_Step(p) ==
  LET h == req[p].hash
  IN  /\ (req[p].kind = "webhook" /\ req[p].code # "duplicate"
          /\ req'[p].code = "duplicate")
         => h \notin DOMAIN cacheInvoice \cup DOMAIN cacheDeposit
      /\ (/\ req[p].pc = "wh_probe_deposit" /\ req'[p] # req[p]
          /\ req[p].invoiceStillExists \/ h \in DOMAIN cacheDeposit)
         => req'[p].pc = "wh_get_invoice" \/ req'[p].code = "error"

SessionsOf(a) == {s \in sessions : req[s.id].attemptId = a}

\* C13: for every attempt handle at most one submission that carries it is
\* accepted, so at most one GameSession is recorded for it.
C13_HandleAcceptedOnce ==
  \A a \in AttemptIds : Cardinality(SessionsOf(a)) <= 1

RECURSIVE MaxOf(_)
MaxOf(S) ==
  IF S = {} THEN 0
  ELSE LET x == CHOOSE y \in S : TRUE IN Max(x, MaxOf(S \ {x}))

\* C15 as stated: best_score is the maximum of the non-null attempt_k_score
\* values of the Entry, or 0 when there is none.
C15_BestIsMaxOfAttemptScores ==
  \A u \in DOMAIN entries :
    entries[u].best_score =
      MaxOf({entries[u].attempt_score[k] : k \in 1..3} \ {NoScore})

\* scores of the accepted submissions of u's Entry that have been recorded
RecordedScores(u) ==
  {s.score : s \in {x \in sessions : x.entry = u /\ req[x.id].pc = "done"}}

\* C15 amended: best_score is the maximum score over the accepted
\* submissions of the Entry that have been recorded, with or without
\* attempt_id, or 0 when there is none, and no attempt_k_score exceeds it.
C15_BestIsMaxOfSubmissions ==
  \A u \in DOMAIN entries :
    /\ entries[u].best_score = MaxOf(RecordedScores(u))
    /\ \A k \in 1..3 : entries[u].attempt_score[k] <= entries[u].best_score

\* one Entry took an accepted submission with a handle and one without
C15_Witness ==
  \E p, q \in Procs :
    /\ req[p].kind = "submit" /\ req[q].kind = "submit"
    /\ req[p].userId = req[q].userId
    /\ req[p].code = "accepted" /\ req[q].code = "accepted"
    /\ req[p].attemptId # 0 /\ req[q].attemptId = 0
    /\ req[p].score # req[q].score

\* C14: no user ever has more than one tournament_entries row in the
\* tournament, and the row is there exactly when the user has an Entry.
C14_OneEntryPerUser ==
  \A u \in Users :
    /\ entryRows[u] <= 1
    /\ entryRows[u] = 1 <=> u \in DOMAIN entries

\* a wallet buy-in ran into the row another path had inserted for the user
C14_Witness ==
  \E p, q \in Procs :
    /\ p # q
    /\ req[p].kind = "wallet_buy_in" /\ req[p].result = "null"
    /\ req[q].kind \in {"start_attempt", "webhook", "payment_status"}
    /\ entryRows[req[p].userId] = 1

\* closeTournament invocations that are past the isProcessing guard
PastGuard ==
  {p \in Procs : req[p].kind = "close" /\ req[p].pc \notin {"idle", "done"}}

\* C16: at most one closeTournament invocation is past the isProcessing
\* guard, the flag is set exactly while one is, and an invocation that
\* starts while the flag is set returns at once and changes nothing.
C16_OneCloseAtATime ==
  /\ [](Cardinality(PastGuard) <= 1 /\ (isProcessing <=> PastGuard # {}))
  /\ [][\A p \in Procs :
          (req[p].pc = "idle" /\ req'[p].kind = "close" /\ isProcessing)
          => /\ req'[p].pc = "done"
             /\ req'[p].code = "in_progress"
             /\ UNCHANGED <<tournament, payouts, entries, isProcessing,
                            tomorrowCreated>>]_vars

\* an invocation was turned away while another was creating payouts
C16_Witness ==
  \E p, q \in Procs :
    /\ req[p].kind = "close" /\ req[p].pc \in {"ct_create", "ct_pay"}
    /\ req[q].kind = "close" /\ req[q].code = "in_progress"

\* the Payout rows of the tournament for one place
PayoutsOfPlace(i) == {r \in payouts : r.place = i}

\* C17: for the tournament and every place in 1..3 at most one Payout row is
\* ever created, over any number of closeTournament invocations, including
\* those that follow a close that failed after creating payouts.
C17_OnePayoutPerPlace ==
  \A i \in 1..3 : Cardinality(PayoutsOfPlace(i)) <= 1

\* C18: the tournament's status changes from open to completed exactly once
\* and never returns to open; a closeTournament invocation that finds the
\* tournament completed ends there, creates no payouts and changes nothing.
C18_ClosedExactlyOnce ==
  /\ [][tournament'.status # tournament.status
          => tournament.status = "open" /\ tournament'.status = "completed"]_vars
  /\ <>(tournament.status = "completed")
  /\ [][\A p \in Procs :
          (/\ tournament.status = "completed"
           /\ req[p].pc \in {"idle", "ct_find"}
           /\ req'[p] # req[p]
           /\ req'[p].kind = "close")
          => /\ UNCHANGED <<tournament, payouts, entries, entryRows, wallets,
                            transactions, tomorrowCreated>>
             /\ req[p].pc = "ct_find"
                  => req'[p].pc = "done" /\ req'[p].code = "already_closed"]_vars

\* a second invocation found the tournament completed
C18_Witness ==
  /\ tournament.status = "completed"
  /\ \E p \in Procs : req[p].kind = "close" /\ req[p].code = "already_closed"

\* payToAddress calls made for payout id
PaymentsOf(id) == {a \in lnPayments : a.payout = id}

LiveIntents(u) ==
  {h \in DOMAIN cacheDeposit : cacheDeposit[h].userId = u /\ h \notin lnPaid}

\* C20: while a deposit intent of a user is unexpired and unpaid, no further
\* invoice or intent exists for that user, and all deposit requests of the
\* user answered with an intent that is still unexpired and unpaid, two
\* overlapping requests included, returned the same payment hash.
C20_OneLiveIntentPerUser ==
  \A u \in Callers :
    /\ Cardinality(LiveIntents(u)) <= 1
    /\ \A p, q \in Procs :
         (/\ req[p].kind = "deposit" /\ req[p].status = 200
          /\ req[q].kind = "deposit" /\ req[q].status = 200
          /\ req[p].userId = u /\ req[q].userId = u
          /\ req[p].hash \in LiveIntents(u)
          /\ req[q].hash \in LiveIntents(u))
         => req[p].hash = req[q].hash

\* entries created by a wallet buy-in, and by a paid buy-in invoice
WalletEntries == {u \in DOMAIN entries : entries[u].payment_hash = "wallet_buy_in"}

InvoiceEntries == {u \in DOMAIN entries : entries[u].payment_hash \in Hashes}

\* C21: buy-in processing is atomic to observers: in every state the prize
\* pool holds the buy-in amount of every Entry created and of nothing else; no
\* state has an Entry without its amount in the pool or the amount without
\* the Entry.
C21_EntryAndPoolTogether ==
  tournament.prize_pool_sats =
    CostSats * Cardinality(WalletEntries)
      + BuyInSats * Cardinality(InvoiceEntries)

\* C22: a webhook request whose signature is missing, of the wrong length or
\* mismatching is answered 401 and changes no state: no marker is written, no
\* intent deleted, no wallet, Entry or prize pool modified.
C22_BadSignatureRejected ==
  [][\A p \in Procs :
       (/\ req[p].pc = "idle"
        /\ req'[p].kind = "webhook"
        /\ req'[p].signature # ExpectedSignature)
       => /\ req'[p].pc = "done"
          /\ req'[p].status = 401
          /\ UNCHANGED <<wallets, transactions, tournament, entries, entryRows,
                         cacheDeposit, cacheInvoice, cacheWebhook,
                         cacheDepositUser, cacheInvoiceUser>>]_vars

\* C23: a start-attempt request that finds the user's wallet balance below
\* the attempt cost is answered 400 INSUFFICIENT_BALANCE there and then, and
\* the request performs no debit, mints no attempt handle and leaves
\* attempts_used unchanged.
C23_InsufficientBalanceNoEffect ==
  /\ [][\A p \in Procs :
          (/\ req[p].pc = "sa_balance"
           /\ req'[p] # req[p]
           /\ wallets[req[p].userId] < CostSats)
          => /\ req'[p].pc = "done"
             /\ req'[p].status = 400
             /\ req'[p].code = "INSUFFICIENT_BALANCE"
             /\ UNCHANGED <<wallets, transactions, entries, cacheAttempt,
                            tournament>>]_vars
  /\ [](\A p \in Procs :
          (req[p].kind = "start_attempt" /\ req[p].code = "INSUFFICIENT_BALANCE")
          => /\ ~req[p].debited
             /\ req[p].result = "none"
             /\ req[p].attemptNumber = 0
             /\ p \notin DOMAIN cacheAttempt)

\* the user spent the balance on an earlier attempt and is refused the next
C23_Witness ==
  \E p \in Procs :
    /\ req[p].kind = "start_attempt"
    /\ req[p].code = "INSUFFICIENT_BALANCE"
    /\ wallets[req[p].userId] < CostSats
    /\ entries[req[p].userId].attempts_used < MAX_ATTEMPTS_PER_TOURNAMENT

\* submissions that carried a live handle of their own and were rejected by
\* the anti-cheat validation
RejectedWithHandle ==
  {p \in Procs : /\ req[p].kind = "submit"
                 /\ req[p].code = "VALIDATION_FAILED"
                 /\ req[p].attemptId # 0}

\* C24: a submission with a valid attempt id that the anti-cheat validation
\* rejects is answered 400 VALIDATION_FAILED; its handle is gone from the
\* cache and every later lookup of it is answered INVALID_ATTEMPT; the
\* rejection credits no refund and records no GameSession row and no score.
C24_RejectedSubmissionConsumesHandle ==
  /\ [][\A p \in Procs :
          (/\ req'[p] # req[p]
           /\ req'[p].kind = "submit"
           /\ req'[p].code = "VALIDATION_FAILED")
          => /\ req'[p].status = 400
             /\ UNCHANGED <<wallets, transactions, entries, sessions,
                            tournament>>]_vars
  /\ [](\A p \in RejectedWithHandle :
          /\ req[p].attemptId \notin DOMAIN cacheAttempt
          /\ \A s \in sessions : s.id # p)
  /\ [][\A p \in RejectedWithHandle, q \in Procs :
          (/\ req[q].pc = "sb_get"
           /\ req'[q] # req[q]
           /\ req[q].attemptId = req[p].attemptId)
          => req'[q].status = 400 /\ req'[q].code = "INVALID_ATTEMPT"]_vars

\* a rejected submission, and a later one with the same handle refused
C24_Witness ==
  \E p \in RejectedWithHandle, q \in Procs :
    /\ p < q
    /\ req[q].attemptId = req[p].attemptId
    /\ req[q].code = "INVALID_ATTEMPT"

\* C25: a start-attempt request whose incrementAttempt returned no row,
\* because the cap was reached concurrently, is answered with status 400 and
\* code MAX_ATTEMPTS.
C25_RaceLoserGetsMaxAttempts ==
  \A p \in Procs :
    (/\ req[p].kind = "start_attempt"
     /\ req[p].result = "null"
     /\ req[p].pc = "done")
    => req[p].status = 400 /\ req[p].code = "MAX_ATTEMPTS"

\* close invocations that have created their payouts and processed none
CreatedAll ==
  {p \in Procs : req[p].kind = "close" /\ req[p].pc = "ct_pay" /\ req[p].idx = 1}

\* C26: at close, for each k in 1..min(3, number of winners) a pending Payout
\* exists for the k-th winner with amount floor(distributable * pct[k]),
\* where distributable = floor(prize_pool * 0.98) and pct = 50, 30, 20 per
\* cent; for a pool of 10,000 sats the amounts are 4900, 2940 and 1960.
C26_PayoutPerWinnerByFormula ==
  /\ \A p \in CreatedAll :
       \A k \in 1..Len(req[p].winners) :
         \E r \in payouts :
           /\ r.id = <<p, k>>
           /\ r.user_id = req[p].winners[k]
           /\ r.place = k
           /\ r.status = "pending"
           /\ r.amount_sats =
                (DistributableSats(req[p].amount) * <<50, 30, 20>>[k]) \div 100
  /\ <<PayoutAmount(10000, 1), PayoutAmount(10000, 2), PayoutAmount(10000, 3)>>
       = <<4900, 2940, 1960>>

\* C27: cache del returns true exactly when the key existed (set, not expired,
\* not deleted) at the moment of the delete, in the in-memory store and in
\* Redis, so that of the del calls on one key that find it at most one returns
\* true.
DelCalls == {p \in Procs : req[p].kind = "cache_del" /\ req[p].pc = "done"}

C27_DelTrueIffKeyExisted ==
  \A p \in DelCalls : req[p].deleted <=> req[p].existed

\* C28: of the setIfNotExists calls made on one absent key at one time exactly
\* one returns true and the others return false, in the in-memory store and
\* in Redis: a call returns true exactly when the key did not exist as it
\* executed, and no two calls on one key executed in the same second both
\* return true.
NxCalls == {p \in Procs : req[p].kind = "cache_nx" /\ req[p].pc = "done"}

C29_NoCsrfTokenRejected ==
  \A p \in Procs :
    (req[p].path # << >> /\ ~req[p].csrfOk) =>
       \/ req[p].pc = "idle" /\ req[p].kind = "none"
       \/ req[p].pc = "done" /\ req[p].status = 403

\* C30: the status of an LNURL challenge moves only pending -> verified ->
\* consumed: it becomes verified only from pending, before its expiry, in the
\* callback of a request whose signature verified and whose key is on the
\* whitelist; it becomes consumed only from verified; and at most one complete
\* call per challenge mints a session, however the complete calls interleave.
StatusOf(challenges, k1) ==
  IF k1 \in DOMAIN challenges THEN challenges[k1].status ELSE "absent"

AuthSessionsOf(k1) == {s \in authSessions : s.k1 = k1}

ChallengeStep(k1) ==
  LET pre  == StatusOf(lnurlChallenges, k1)
      post == StatusOf(lnurlChallenges', k1)
  IN  pre # post =>
        \/ pre = "absent" /\ post = "pending"
        \/ post = "absent" /\ lnurlChallenges[k1].expires_at < now
        \/ /\ pre = "pending" /\ post = "verified"
           /\ lnurlChallenges[k1].expires_at > now
           /\ \E p \in Procs :
                /\ req[p].kind = "callback" /\ req[p].k1 = k1
                /\ req[p].validSig
                /\ req[p].linkingKey \in Whitelist
                /\ lnurlChallenges'[k1].linking_key = req[p].linkingKey
        \/ pre = "verified" /\ post = "consumed"

C30_ChallengeLifecycle ==
  /\ [](\A k1 \in K1s : Cardinality(AuthSessionsOf(k1)) <= 1)
  /\ [][\A k1 \in K1s : ChallengeStep(k1)]_vars

\* two complete calls on one challenge have ended: one minted the session, the
\* other was answered 400
C30_Witness ==
  \E p, q \in Procs :
    /\ p # q /\ req[p].k1 = req[q].k1
    /\ req[p].kind = "complete" /\ req[p].pc = "done" /\ req[p].status = 200
    /\ req[q].kind = "complete" /\ req[q].pc = "done" /\ req[q].status = 400
    /\ Cardinality(AuthSessionsOf(req[p].k1)) = 1

\* C31: once a DELETE of a whitelist entry has completed, the session store
\* holds no session of the removed wallet's user: getSession returns null for
\* every token of that user.
Revoked ==
  {req[p].linkingKey : p \in {q \in Procs : /\ req[q].kind = "whitelist_delete"
                                              /\ req[q].pc = "done"}}

C31_RevokedUserHasNoSession ==
  \A s \in authSessions : s.linking_key \notin Revoked

\* C40: once destroySession or destroyAllUserSessions has returned, every
\* session it destroyed stays out of the store, so getSession returns null
\* for its token from then on, also when a getSession of that token was in
\* progress at the time.
DestroyedSessions ==
  UNION {req[p].destroyed : p \in {q \in Procs : req[q].pc = "done"}}

C40_DestroyedSessionStaysGone ==
  \A s \in DestroyedSessions : s \notin authSessions

\* C32: there is a threshold such that a payout whose payment has failed that
\* many times, and which is still pending, has a PAYOUT-ALERT record in the
\* log.
FailedPayments(id) ==
  {r \in PayoutLog : r.payout = id /\ r.tag = "[PAYOUT] FAILED"}

C32_AlertAfterRepeatedFailures ==
  \A row \in payouts :
    \E threshold \in 1..(NumProcs + 1) :
      (row.status = "pending"
         /\ Cardinality(FailedPayments(row.id)) >= threshold)
        => \E r \in PayoutLog : r.payout = row.id /\ r.tag = "[PAYOUT-ALERT]"

\* C33: a production process that lacks LNBITS_WEBHOOK_SECRET, REDIS_URL or
\* LNBITS_API_KEY never listens, accepts no request and runs no scheduled
\* task, and once start() has scheduled the tasks it has exited.
Misconfigured ==
  /\ server.production
  /\ ~server.webhookSecret \/ ~server.redisUrl \/ ~server.apiKey

C34_NoWorkAfterShutdownBegins == ~server.lateWork

\* C35: a start-attempt request whose incrementAttempt raised attempts_used
\* (and which goes on to credit the prize pool) is one whose wallet debit
\* lowered the balance by the cost.
C35_AttemptGrantedOnlyWhenDebited ==
  \A p \in Procs :
    (req[p].kind = "start_attempt" /\ req[p].result = "updated")
      => req[p].debited

\* C36: each payout has at most one successful Lightning payment.
SuccessfulPayments(id) == {a \in lnPayments : a.payout = id /\ a.ok}

C36_AtMostOnePaymentPerPayout ==
  \A row \in payouts : Cardinality(SuccessfulPayments(row.id)) <= 1

\* C37: once closeTournament has read the prize pool of the tournament, no
\* step adds to that prize pool or creates an Entry in the tournament.
PoolWasRead ==
  \/ tournament.status = "completed"
  \/ \E p \in Procs :
       /\ req[p].kind = "close"
       /\ req[p].pc \in {"ct_top", "ct_close_empty", "ct_create", "ct_pay",
                        "ct_close", "ct_next_day"}

C37_NothingCollectedAfterPoolRead ==
  [][PoolWasRead =>
       /\ tournament'.prize_pool_sats = tournament.prize_pool_sats
       /\ DOMAIN entries' = DOMAIN entries]_vars

\* C38: an Entry with a score on the leaderboard belongs to a user who paid
\* for an attempt (a start-attempt request of the user had its cost debited,
\* now or before) or for a buy-in.
PaidForAttempt(u) ==
  \/ entries[u].attempts_used > 0
  \/ entries[u].payment_hash # "null"
  \/ \E p \in Procs :
       req[p].kind = "start_attempt" /\ req[p].userId = u /\ req[p].debited

C38_ScoreOnlyAfterPaidAttempt ==
  \A u \in DOMAIN entries : entries[u].best_score > 0 => PaidForAttempt(u)

\* C39: a submit that records a score with an attempt handle records it on
\* the Entry whose id the handle stores.
C39_ScoreRecordedOnHandleEntry ==
  [][\A p \in Procs :
       (/\ req[p].pc = "sb_record"
        /\ req[p].attemptNumber # 0
        /\ req'[p].pc = "done" /\ req'[p].status = 200)
         => req[p].entryId = EntryId(req[p].userId)]_vars

====
